---- MODULE Spec2Model ----
(***************************************************************************)
(* Shopify -> Notion order sync: the run state machine of                  *)
(* ShopifyNotionSync.sync_orders_to_notion (src/api/sync.py) over the      *)
(* sync-state document kept by SyncBlobStorage (src/api/blob_storage.py).  *)
(*                                                                         *)
(* Time is counted in minutes.  A timestamp is a positive integer; Python's *)
(* None is the value None below, which no clock reading or order time       *)
(* equals (and which, like None, is the only falsy timestamp).             *)
(***************************************************************************)
EXTENDS Integers, Sequences, FiniteSets, TLC

VARIABLES
    blob,               \* the persisted sync state: the sync-state.json document
                        \* (for a SyncDatabaseStorage, the rows of its tables)
    pages,              \* the Notion database: pages[i] is the page with id i
    shop,               \* the Shopify orders: order name -> updatedAt, line items
    now,                \* the wall clock (UTC), minutes
    tz,                 \* offset of the server's local time from UTC, minutes
    pc,                 \* per request handler: where its run stands
    mode,               \* per run: sync_orders_to_notion's mode argument
    limit,              \* per run: sync_orders_to_notion's limit argument
    sync_state,         \* per run: start_sync_lock's local sync_state
    batch_mode,         \* per run: SyncBlobStorage.batch_mode
    cached_sync_state,  \* per run: SyncBlobStorage.cached_sync_state
    sync_strategy,      \* per run: the strategy chosen
    orders,             \* per run: the fetched orders not yet processed
    processed_orders,   \* per run: the summary's counter
    created_pages_count,\* per run: the summary's counter
    errors,             \* per run: the summary's list of failed order names
    result,             \* per handler: what its last run returned
    runs,               \* number of requests received so far
    hist,               \* per handler: observations of its current/last run
    response,           \* per handler: what do_POST sent for its last request
    call                \* the last direct call of a method: argument and return

vars == <<blob, pages, shop, now, tz, pc, mode, limit, sync_state, batch_mode,
          cached_sync_state, sync_strategy, orders, processed_orders,
          created_pages_count, errors, result, runs, hist, response, call>>

(***************************************************************************)
(* Bounds of the model and constants of the program.                       *)
(***************************************************************************)
NumOrders == 2
MaxTime == 2
MaxNow == 13
MaxRuns == 2
MaxPages == 6
MaxLimit == 2
MaxItems == 2
MaxAmount == 2
MaxLineItems == 3
MaxIds == 3
MaxTransactions == 3
StaleMinutes == 10
RetryLimit == 50
None == 0

Procs == {1, 2}
OrderNames == 1..NumOrders
TickSteps == {StaleMinutes, StaleMinutes + 1}
Modes == {"smart", "initial"}
Limits == {1, MaxLimit}
TzOffsets == {0}

Min(a, b) == IF a <= b THEN a ELSE b
Range(s) == {s[i] : i \in DOMAIN s}
Put(f, k, v) == [x \in (DOMAIN f) \cup {k} |-> IF x = k THEN v ELSE f[x]]
\* list.remove(x): the first occurrence of x goes.
Remove(s, x) ==
    IF x \notin Range(s) THEN s
    ELSE LET i == CHOOSE k \in DOMAIN s : s[k] = x /\ \A j \in 1..(k - 1) : s[j] # x
         IN  SubSeq(s, 1, i - 1) \o SubSeq(s, i + 1, Len(s))

(***************************************************************************)
(* SyncBlobStorage: the state document and the pure part of each method.   *)
(***************************************************************************)
InitialSyncState ==
    [last_sync |-> None,
     synced_orders |-> <<>>,
     failed_orders |-> <<>>,
     last_processed_updated_at |-> None,
     sync_in_progress |-> FALSE,
     sync_started_at |-> None]

\* _read_sync_state_from_blob followed by the callers' "is None" fallback:
\* a read that fails yields the initial state.
ReadBlob(b, ok) == IF ok THEN b ELSE InitialSyncState

\* datetime.now().isoformat(): the server's local time, with no zone.
LocalNow(t, z) == t + z

\* is_sync_in_progress with the comparison of line 267 written ">=".
IsSyncInProgressInclusive(st, t) ==
    IF st.sync_in_progress /\ st.sync_started_at # None
          /\ t - st.sync_started_at >= StaleMinutes
    THEN FALSE
    ELSE st.sync_in_progress

\* The 10 minute rule of is_sync_in_progress on a state read from the blob.
\* The stored stamp is parsed as UTC and compared with the UTC clock.
IsSyncInProgress(st, t) ==
    IF st.sync_in_progress /\ st.sync_started_at # None
          /\ t - st.sync_started_at > StaleMinutes
    THEN FALSE
    ELSE st.sync_in_progress

StartSyncLockState(st, t, z) ==
    [st EXCEPT !.sync_in_progress = TRUE, !.sync_started_at = LocalNow(t, z)]

\* end_sync_lock clearing the acquisition time alone.
EndSyncLockStateKeepsFlag(st) == [st EXCEPT !.sync_started_at = None]

EndSyncLockState(st) ==
    [st EXCEPT !.sync_in_progress = FALSE, !.sync_started_at = None]

GetSyncedOrderPageIds(st, o) ==
    IF o \in DOMAIN st.synced_orders THEN st.synced_orders[o] ELSE <<>>

\* mark_order_synced adding the new ids to the stored ones (line 197 as an
\* extension of the entry).
MarkOrderSyncedAppends(st, o, ids, updated_at) ==
    [st EXCEPT !.synced_orders =
                   Put(@, o, (IF o \in DOMAIN @ THEN @[o] ELSE <<>>) \o ids),
               !.last_processed_updated_at =
                   IF updated_at # None THEN updated_at ELSE @,
               !.failed_orders = Remove(@, o)]

\* mark_order_synced without the removal of lines 204-205.
MarkOrderSyncedKeepsFailed(st, o, ids, updated_at) ==
    [st EXCEPT !.synced_orders = Put(@, o, ids),
               !.last_processed_updated_at =
                   IF updated_at # None THEN updated_at ELSE @]

\* mark_order_synced without the resume point of lines 200-201.
MarkOrderSyncedKeepsResumePoint(st, o, ids, updated_at) ==
    [st EXCEPT !.synced_orders = Put(@, o, ids),
               !.failed_orders = Remove(@, o)]

MarkOrderSynced(st, o, ids, updated_at) ==
    [st EXCEPT !.synced_orders = Put(@, o, ids),
               !.last_processed_updated_at =
                   IF updated_at # None THEN updated_at ELSE @,
               !.failed_orders = Remove(@, o)]

\* mark_order_failed without the append of line 217.
MarkOrderFailedForgets(st, o) == st

MarkOrderFailed(st, o) ==
    [st EXCEPT !.failed_orders =
                   IF o \in Range(@) THEN @ ELSE Append(@, o)]

CompleteSync(st, timestamp) == [st EXCEPT !.last_sync = timestamp]

\* determine_sync_strategy deciding on the resume checkpoint instead of
\* last_sync (lines 184 and 189).
DetermineSyncStrategyByCheckpoint(st) ==
    [sync_type |-> IF st.last_processed_updated_at = None THEN "initial" ELSE "smart",
     needs_initial |-> st.last_processed_updated_at = None,
     sync_from_timestamp |->
         IF st.last_processed_updated_at = None THEN None
         ELSE st.last_processed_updated_at]

\* determine_sync_strategy without the resume timestamp of line 197.
DetermineSyncStrategyFromLastSync(st) ==
    [sync_type |-> IF st.last_sync = None THEN "initial" ELSE "smart",
     needs_initial |-> st.last_sync = None,
     sync_from_timestamp |-> st.last_sync]

\* determine_sync_strategy on the state the run reads (its cache).
DetermineSyncStrategy(st) ==
    [sync_type |-> IF st.last_sync = None THEN "initial" ELSE "smart",
     needs_initial |-> st.last_sync = None,
     sync_from_timestamp |->
         IF st.last_sync = None THEN None
         ELSE IF st.last_processed_updated_at # None
              THEN st.last_processed_updated_at
              ELSE st.last_sync]

\* mode == 'initial' builds the strategy by hand; 'needs_initial' is then
\* never read (the 'or' of line 558 short-circuits).
ForcedInitialStrategy ==
    [sync_type |-> "initial", needs_initial |-> TRUE, sync_from_timestamp |-> None]

(***************************************************************************)
(* The Shopify source: get_shopify_orders.                                 *)
(***************************************************************************)
FetchedOrder(o) == [name |-> o, updatedAt |-> shop[o].updatedAt, items |-> shop[o].items]

\* The orders the query filter selects: by name, else by updated_at >= filter,
\* else all of them.
Matching(date_filter, order_ids) ==
    IF order_ids # <<>> THEN {o \in DOMAIN shop : o \in Range(order_ids)}
    ELSE IF date_filter # None THEN {o \in DOMAIN shop : shop[o].updatedAt >= date_filter}
    ELSE DOMAIN shop

\* Every listing of S sorted by UPDATED_AT, oldest first (reverse: false) or
\* newest first (reverse: true); the order of equal stamps is Shopify's choice.
SortedListings(S, ascending) ==
    {s \in [1..Cardinality(S) -> S] :
        /\ \A i, j \in 1..Cardinality(S) : i # j => s[i] # s[j]
        /\ \A i, j \in 1..Cardinality(S) : i < j =>
              IF ascending THEN shop[s[i]].updatedAt <= shop[s[j]].updatedAt
              ELSE shop[s[i]].updatedAt >= shop[s[j]].updatedAt}

First(s, n) == SubSeq(s, 1, Min(n, Len(s)))

GetShopifyOrders(lim, date_filter, order_ids, initial_sync) ==
    {[i \in DOMAIN First(s, lim) |-> FetchedOrder(s[i])] :
        s \in SortedListings(Matching(date_filter, order_ids), initial_sync)}

(***************************************************************************)
(* The Notion destination: delete_notion_pages and the page creations of   *)
(* create_notion_page.                                                     *)
(***************************************************************************)
\* delete_notion_pages returning before the loop of line 410.
DeleteNotionPagesSkips(pgs, ids, failed) == pgs

\* notion.pages.update(archived=True) for each id; the ids in failed raise,
\* which delete_notion_pages catches and logs.
DeleteNotionPages(pgs, ids, failed) ==
    [i \in DOMAIN pgs |->
        IF i \in Range(ids) \ failed THEN [pgs[i] EXCEPT !.archived = TRUE] ELSE pgs[i]]

\* Number of notion.pages.create calls a full success makes for n line items.
PagesNeeded(n) == IF n > 1 THEN 1 + n ELSE 1

\* The c pages created for order o, in creation order, after base pages exist:
\* the parent first, then one page per line item, each pointing to the parent.
NewPages(o, base, c) ==
    [k \in 1..c |->
        [order |-> o, item |-> k - 1,
         parent |-> IF k = 1 THEN 0 ELSE base + 1,
         archived |-> FALSE]]

NewPageIds(base, c) == [k \in 1..c |-> base + k]

(***************************************************************************)
(* One run of sync_orders_to_notion, a step per call that leaves the       *)
(* process (blob read, blob write, Shopify query, the Notion calls of one  *)
(* order).  In batch mode every storage method in between works on the    *)
(* run's cached_sync_state alone.                                          *)
(***************************************************************************)
NoResult ==
    [kind |-> "none", status |-> "none", sync_type |-> "none",
     processed_orders |-> 0, created_pages |-> 0, errors |-> <<>>]

\* The three return statements of sync_orders_to_notion (lines 531, 657, 673).
BlockedResult == [NoResult EXCEPT !.kind = "blocked", !.status = "error"]
ErrorSummary == [NoResult EXCEPT !.kind = "fatal", !.status = "error"]

\* The summary with processed_orders counting the failed records too.
SummaryCountsAttempts(p) ==
    [kind |-> "summary", status |-> "success",
     sync_type |-> sync_strategy[p].sync_type,
     processed_orders |-> processed_orders[p] + Len(errors[p]),
     created_pages |-> created_pages_count[p],
     errors |-> errors[p]]

Summary(p) ==
    [kind |-> "summary", status |-> "success",
     sync_type |-> sync_strategy[p].sync_type,
     processed_orders |-> processed_orders[p],
     created_pages |-> created_pages_count[p],
     errors |-> errors[p]]

\* do_POST before anything is sent, and lines 822-835: once
\* sync_orders_to_notion has returned, status 200 is sent with a body whose
\* "status" is "sync_completed" and whose "sync_results" is what the run
\* returned, whatever that is.
NoResponse == [code |-> 0, status |-> "none", sync_results |-> NoResult]

DoPostResponse(sync_results) ==
    [code |-> 200, status |-> "sync_completed", sync_results |-> sync_results]

\* Lines 843-859: an exception reached do_POST's except clause.
DoPostErrorResponse == [code |-> 500, status |-> "error", sync_results |-> NoResult]

\* No method has been called directly.
NoCall == [fn |-> "none", arg |-> <<>>, ret |-> <<>>]

\* Pages that are not archived, and the orders a state holds an entry for.
LivePages(pgs) == {i \in DOMAIN pgs : ~pgs[i].archived}

LiveParents(pgs, o) == {i \in LivePages(pgs) : pgs[i].order = o /\ pgs[i].parent = 0}

\* What is observed of a run, for the properties below; no step reads it.
\*   checked_at    the clock at the lock check
\*   live_at_start the number of live pages when the run began
\*   synced_at_start  every order had an entry and none was failed then
\*   resumed       an earlier run had completed (last_sync was set) then
\*   failed_at_start  the persisted failed_orders then
\*   last_sync_at_start  the persisted last_sync then
\*   fetches       the Shopify queries that returned, in order
\*   fetched       the names of the orders fetched, in fetch order
\*   log           the orders processed, in order, each with its outcome
\*   notion_fault  some Notion call of the run raised
\*   flushed       the closing blob write succeeded
\*   unbatched     for a storage object in batch mode: the persisted state
\*                 that the calls made since start_batch_mode would have
\*                 left, had each been made outside batch mode on a store
\*                 that answers every call
NoHist ==
    [checked_at |-> None, live_at_start |-> 0, synced_at_start |-> FALSE,
     resumed |-> FALSE, failed_at_start |-> <<>>, last_sync_at_start |-> None,
     fetches |-> <<>>,
     fetched |-> <<>>, log |-> <<>>, notion_fault |-> FALSE, flushed |-> FALSE,
     unbatched |-> InitialSyncState]

StartHist ==
    [NoHist EXCEPT !.checked_at = now,
                   !.live_at_start = Cardinality(LivePages(pages)),
                   !.synced_at_start = /\ DOMAIN blob.synced_orders = DOMAIN shop
                                       /\ blob.failed_orders = <<>>,
                   !.resumed = blob.last_sync # None,
                   !.failed_at_start = blob.failed_orders,
                   !.last_sync_at_start = blob.last_sync]

Names(s) == [i \in DOMAIN s |-> s[i].name]

\* A handler holds nothing between requests: each request builds a new
\* ShopifyNotionSync and a new SyncBlobStorage (batch_mode False, no cache).
ResetLocals(p) ==
    /\ mode' = [mode EXCEPT ![p] = "none"]
    /\ limit' = [limit EXCEPT ![p] = 0]
    /\ sync_state' = [sync_state EXCEPT ![p] = InitialSyncState]
    /\ batch_mode' = [batch_mode EXCEPT ![p] = FALSE]
    /\ cached_sync_state' = [cached_sync_state EXCEPT ![p] = InitialSyncState]
    /\ sync_strategy' = [sync_strategy EXCEPT ![p] = ForcedInitialStrategy]
    /\ orders' = [orders EXCEPT ![p] = <<>>]
    /\ processed_orders' = [processed_orders EXCEPT ![p] = 0]
    /\ created_pages_count' = [created_pages_count EXCEPT ![p] = 0]
    /\ errors' = [errors EXCEPT ![p] = <<>>]

\* The order sets a run can meet: the orders are named in the order of their
\* update times, the newest was updated at MaxTime, and at most the first
\* has several line items.
ShopStates ==
    {sh \in [OrderNames -> [updatedAt : 1..MaxTime, items : 1..MaxItems]] :
        /\ \A o \in OrderNames : o > 1 => sh[o - 1].updatedAt <= sh[o].updatedAt
        /\ \A o \in OrderNames : o > 1 => sh[o].items = 1
        /\ sh[NumOrders].updatedAt = MaxTime
        /\ sh[1].items > 1 => sh[1].updatedAt < MaxTime}

Init ==
    /\ blob = InitialSyncState
    /\ pages = <<>>
    /\ shop \in ShopStates
    /\ now = MaxTime
    /\ tz \in TzOffsets
    /\ pc = [p \in Procs |-> "idle"]
    /\ mode = [p \in Procs |-> "none"]
    /\ limit = [p \in Procs |-> 0]
    /\ sync_state = [p \in Procs |-> InitialSyncState]
    /\ batch_mode = [p \in Procs |-> FALSE]
    /\ cached_sync_state = [p \in Procs |-> InitialSyncState]
    /\ sync_strategy = [p \in Procs |-> ForcedInitialStrategy]
    /\ orders = [p \in Procs |-> <<>>]
    /\ processed_orders = [p \in Procs |-> 0]
    /\ created_pages_count = [p \in Procs |-> 0]
    /\ errors = [p \in Procs |-> <<>>]
    /\ result = [p \in Procs |-> NoResult]
    /\ runs = 0
    /\ hist = [p \in Procs |-> NoHist]
    /\ response = [p \in Procs |-> NoResponse]
    /\ call = NoCall

\* The lock check with the blocked branch leaving through the cleanup of
\* lines 662-663 (end_sync_lock outside batch mode writes the blob).
LockCheckReleasing(p, m, l, ok) ==
    /\ pc[p] = "idle"
    /\ runs < MaxRuns
    /\ runs' = runs + 1
    /\ IF IsSyncInProgress(ReadBlob(blob, ok), now)
       THEN /\ result' = [result EXCEPT ![p] = BlockedResult]
            /\ pc' = [pc EXCEPT ![p] = "respond"]
            /\ blob' = EndSyncLockState(blob)
            /\ UNCHANGED <<mode, limit, hist>>
       ELSE /\ result' = [result EXCEPT ![p] = NoResult]
            /\ pc' = [pc EXCEPT ![p] = "start_sync_lock"]
            /\ mode' = [mode EXCEPT ![p] = m]
            /\ limit' = [limit EXCEPT ![p] = l]
            /\ hist' = [hist EXCEPT ![p] = StartHist]
            /\ UNCHANGED blob
    /\ response' = [response EXCEPT ![p] = NoResponse]
    /\ UNCHANGED <<pages, shop, now, tz, sync_state, batch_mode,
                   cached_sync_state, sync_strategy, orders, processed_orders,
                   created_pages_count, errors, call>>

\* Lines 526-535: a request arrives (mode m, limit l) and the run asks
\* is_sync_in_progress, which reads the blob (ok: the read succeeds).
LockCheck(p, m, l, ok) ==
    /\ pc[p] = "idle"
    /\ runs < MaxRuns
    /\ runs' = runs + 1
    /\ IF IsSyncInProgress(ReadBlob(blob, ok), now)
       THEN /\ result' = [result EXCEPT ![p] = BlockedResult]
            /\ pc' = [pc EXCEPT ![p] = "respond"]
            /\ UNCHANGED <<mode, limit, hist>>
       ELSE /\ result' = [result EXCEPT ![p] = NoResult]
            /\ pc' = [pc EXCEPT ![p] = "start_sync_lock"]
            /\ mode' = [mode EXCEPT ![p] = m]
            /\ limit' = [limit EXCEPT ![p] = l]
            /\ hist' = [hist EXCEPT ![p] = StartHist]
    /\ response' = [response EXCEPT ![p] = NoResponse]
    /\ UNCHANGED <<blob, pages, shop, now, tz, sync_state, batch_mode,
                   cached_sync_state, sync_strategy, orders, processed_orders,
                   created_pages_count, errors, call>>

\* start_sync_lock, lines 278-280: read the state and set the lock in it.
StartSyncLockRead(p, ok) ==
    /\ pc[p] = "start_sync_lock"
    /\ sync_state' = [sync_state EXCEPT ![p] = StartSyncLockState(ReadBlob(blob, ok), now, tz)]
    /\ pc' = [pc EXCEPT ![p] = "save_sync_lock"]
    /\ UNCHANGED <<blob, pages, shop, now, tz, mode, limit, batch_mode,
                   cached_sync_state, sync_strategy, orders, processed_orders,
                   created_pages_count, errors, result, runs, hist, response, call>>

\* start_sync_lock, lines 283-295: write it to the blob (ok: the put succeeds;
\* a failed put is logged and the run goes on).
StartSyncLockWrite(p, ok) ==
    /\ pc[p] = "save_sync_lock"
    /\ blob' = IF ok THEN sync_state[p] ELSE blob
    /\ sync_state' = [sync_state EXCEPT ![p] = InitialSyncState]
    /\ pc' = [pc EXCEPT ![p] = "start_batch_mode"]
    /\ UNCHANGED <<pages, shop, now, tz, mode, limit, batch_mode,
                   cached_sync_state, sync_strategy, orders, processed_orders,
                   created_pages_count, errors, result, runs, hist, response, call>>

\* What the run does once its strategy is known (lines 558, 594-597, 613).
AfterStrategy(m, st) ==
    IF m = "initial" \/ DetermineSyncStrategy(st).needs_initial THEN "fetch_initial"
    ELSE IF st.failed_orders # <<>> THEN "fetch_retry"
    ELSE "fetch_updated"

\* start_batch_mode (the blob is read into the cache) and lines 543-547.
StartBatchMode(p, ok) ==
    /\ pc[p] = "start_batch_mode"
    /\ batch_mode' = [batch_mode EXCEPT ![p] = TRUE]
    /\ cached_sync_state' = [cached_sync_state EXCEPT ![p] = ReadBlob(blob, ok)]
    /\ sync_strategy' = [sync_strategy EXCEPT ![p] =
           IF mode[p] = "initial" THEN ForcedInitialStrategy
           ELSE DetermineSyncStrategy(ReadBlob(blob, ok))]
    /\ pc' = [pc EXCEPT ![p] = AfterStrategy(mode[p], ReadBlob(blob, ok))]
    /\ UNCHANGED <<blob, pages, shop, now, tz, mode, limit, sync_state, orders,
                   processed_orders, created_pages_count, errors, result, runs, hist,
                   response, call>>

\* The retry loop followed by the summary (line 612 never reached).
AfterLoopEndsRun(loop) == "finalize"

\* A loop over fetched orders that is not left when nothing is left to
\* process.
AfterLoopStays(loop) == loop

\* Where a loop over fetched orders goes when nothing is left to process.
AfterLoop(loop) == IF loop = "retry_loop" THEN "fetch_updated" ELSE "finalize"

\* A Shopify query of the run: it returns a listing (ok) or raises, which
\* takes the run to the except clause of line 659.
Fetch(p, at, loop, listings, ok) ==
    /\ pc[p] = at
    /\ IF ok
       THEN \E s \in listings :
               /\ orders' = [orders EXCEPT ![p] = s]
               /\ pc' = [pc EXCEPT ![p] = IF s = <<>> THEN AfterLoop(loop) ELSE loop]
               /\ hist' = [hist EXCEPT ![p].fetched = @ \o Names(s),
                                       ![p].fetches = Append(@, at)]
       ELSE /\ pc' = [pc EXCEPT ![p] = "except"]
            /\ UNCHANGED <<orders, hist>>
    /\ UNCHANGED <<blob, pages, shop, now, tz, mode, limit, sync_state, batch_mode,
                   cached_sync_state, sync_strategy, processed_orders,
                   created_pages_count, errors, result, runs, response, call>>

\* Line 562.
FetchInitial(p, ok) ==
    Fetch(p, "fetch_initial", "initial_loop",
          GetShopifyOrders(limit[p], None, <<>>, TRUE), ok)

\* Lines 594-599: the failed orders, by name, with the default limit and
\* initial_sync False.
FetchRetry(p, ok) ==
    Fetch(p, "fetch_retry", "retry_loop",
          GetShopifyOrders(RetryLimit, None, cached_sync_state[p].failed_orders, FALSE), ok)

\* Lines 613-617.
FetchUpdated(p, ok) ==
    Fetch(p, "fetch_updated", "updated_loop",
          GetShopifyOrders(limit[p], sync_strategy[p].sync_from_timestamp, <<>>, TRUE), ok)

\* create_notion_page recording the order whatever the number of creations
\* that succeeded.
PageCreatedAnyCount(n, c) == n >= 1

\* Whether create_notion_page reaches mark_order_synced after c successful
\* creations for an order with n line items (an order without line items
\* raises IndexError at line 450, before any creation).
PageCreated(n, c) == n >= 1 /\ c = PagesNeeded(n)

\* The creation counts that can happen for n line items: each create call
\* may raise, which ends the attempt with the pages created so far.
CreationCounts(n) == IF n >= 1 THEN 0..PagesNeeded(n) ELSE {0}

\* create_notion_page for the next fetched order, and the caller's
\* bookkeeping (lines 576-581): the old pages are archived (those in failed
\* raise), c pages are created, and the outcome is recorded in the cache.
CreateNotionPage(p, failed, c) ==
    /\ pc[p] \in {"initial_loop", "retry_loop", "updated_loop"}
    /\ orders[p] # <<>>
    /\ LET order == Head(orders[p])
           st == cached_sync_state[p]
           existing == GetSyncedOrderPageIds(st, order.name)
           base == Len(pages)
       IN  /\ failed \subseteq Range(existing)
           /\ c \in CreationCounts(order.items)
           /\ base + c <= MaxPages
           /\ pages' = DeleteNotionPages(pages, existing, failed) \o NewPages(order.name, base, c)
           /\ IF PageCreated(order.items, c)
              THEN /\ cached_sync_state' = [cached_sync_state EXCEPT ![p] =
                          MarkOrderSynced(st, order.name, NewPageIds(base, c), order.updatedAt)]
                   /\ processed_orders' = [processed_orders EXCEPT ![p] = @ + 1]
                   /\ created_pages_count' = [created_pages_count EXCEPT ![p] = @ + c]
                   /\ UNCHANGED errors
              ELSE /\ cached_sync_state' = [cached_sync_state EXCEPT ![p] =
                          MarkOrderFailed(st, order.name)]
                   /\ errors' = [errors EXCEPT ![p] = Append(@, order.name)]
                   /\ UNCHANGED <<processed_orders, created_pages_count>>
           /\ hist' = [hist EXCEPT
                  ![p].log = Append(@, [name |-> order.name, ok |-> PageCreated(order.items, c)]),
                  ![p].notion_fault = @ \/ failed # {} \/ ~PageCreated(order.items, c)]
    /\ orders' = [orders EXCEPT ![p] = Tail(@)]
    /\ pc' = [pc EXCEPT ![p] = IF Tail(orders[p]) = <<>> THEN AfterLoop(pc[p]) ELSE pc[p]]
    /\ UNCHANGED <<blob, shop, now, tz, mode, limit, sync_state, batch_mode,
                   sync_strategy, result, runs, response, call>>

\* The state the normal exit flushes: complete_sync, then end_sync_lock,
\* both on the cache (lines 634-637).
FinalState(st, t, z) == EndSyncLockState(CompleteSync(st, LocalNow(t, z)))

\* The except clause without the end_sync_lock of line 662.
CleanupStateKeepsLock(st) == st

\* The state the except clause flushes: end_sync_lock on the cache (line 662).
CleanupState(st) == EndSyncLockState(st)

\* end_batch_mode: the cache goes to the blob when the put succeeds.
EndBatchMode(b, st, ok) == IF ok THEN st ELSE b

\* Lines 633-657: the normal exit; the summary is returned.
Finalize(p, ok) ==
    /\ pc[p] = "finalize"
    /\ blob' = EndBatchMode(blob, FinalState(cached_sync_state[p], now, tz), ok)
    /\ result' = [result EXCEPT ![p] = Summary(p)]
    /\ pc' = [pc EXCEPT ![p] = "respond"]
    /\ hist' = [hist EXCEPT ![p].flushed = ok]
    /\ ResetLocals(p)
    /\ UNCHANGED <<pages, shop, now, tz, runs, response, call>>

\* Lines 659-673: the except clause; the error summary is returned.
Cleanup(p, ok) ==
    /\ pc[p] = "except"
    /\ blob' = EndBatchMode(blob, CleanupState(cached_sync_state[p]), ok)
    /\ result' = [result EXCEPT ![p] = ErrorSummary]
    /\ pc' = [pc EXCEPT ![p] = "respond"]
    /\ hist' = [hist EXCEPT ![p].flushed = ok]
    /\ ResetLocals(p)
    /\ UNCHANGED <<pages, shop, now, tz, runs, response, call>>

\* do_POST, lines 827-845: the handler sends what the run returned and ends.
Respond(p) ==
    /\ pc[p] = "respond"
    /\ pc' = [pc EXCEPT ![p] = "idle"]
    /\ result' = [result EXCEPT ![p] = NoResult]
    /\ hist' = [hist EXCEPT ![p] = NoHist]
    /\ response' = [response EXCEPT ![p] = DoPostResponse(result[p])]
    /\ UNCHANGED <<blob, pages, shop, now, tz, mode, limit, sync_state, batch_mode,
                   cached_sync_state, sync_strategy, orders, processed_orders,
                   created_pages_count, errors, runs, call>>

\* do_POST, lines 801-802 and 843-859: ShopifyNotionSync() raises (a
\* variable of its environment is missing, lines 20-27, or
\* blob_storage.py 15-17), no run starts and the error response is sent.
DoPostError(p) ==
    /\ pc[p] = "idle"
    /\ runs < MaxRuns
    /\ runs' = runs + 1
    /\ response' = [response EXCEPT ![p] = DoPostErrorResponse]
    /\ UNCHANGED <<blob, pages, shop, now, tz, pc, mode, limit, sync_state, batch_mode,
                   cached_sync_state, sync_strategy, orders, processed_orders,
                   created_pages_count, errors, result, hist, call>>

\* The process of a run dies (the serverless function is killed): nothing
\* of it runs any more, and nothing is returned.
Crash(p) ==
    /\ pc[p] \notin {"idle", "respond"}
    /\ pc' = [pc EXCEPT ![p] = "idle"]
    /\ hist' = [hist EXCEPT ![p] = NoHist]
    /\ ResetLocals(p)
    /\ UNCHANGED <<blob, pages, shop, now, tz, result, runs, response, call>>

\* The steps that read the clock: the lock check (line 267), the stamp of
\* start_sync_lock (line 280) and complete_sync (line 227).
ReadsClock(p) ==
    \/ pc[p] = "idle" /\ runs < MaxRuns
    \/ pc[p] \in {"start_sync_lock", "finalize"}

\* Time passes.  Only the time between two readings of the clock matters, so
\* the clock moves when some run is about to read it.
Tick(d) ==
    /\ now + d <= MaxNow
    /\ \E p \in Procs : ReadsClock(p)
    /\ now' = now + d
    /\ UNCHANGED <<blob, pages, shop, tz, pc, mode, limit, sync_state, batch_mode,
                   cached_sync_state, sync_strategy, orders, processed_orders,
                   created_pages_count, errors, result, runs, hist, response, call>>

\* The creation count of a full success for the order a run is about to
\* process, the counts that can happen, and the old pages it will archive.
FullCount(p) == IF orders[p] = <<>> THEN 0 ELSE PagesNeeded(Head(orders[p]).items)

Counts(p) == IF orders[p] = <<>> THEN {} ELSE CreationCounts(Head(orders[p]).items)

OldPages(p) ==
    IF orders[p] = <<>> THEN {}
    ELSE Range(GetSyncedOrderPageIds(cached_sync_state[p], Head(orders[p]).name))

(***************************************************************************)
(* Spec: requests are served one at a time (a single handler), and every   *)
(* call that leaves the process may fail: blob reads and writes, Shopify   *)
(* queries, Notion creations and archivals; the process may die anywhere.  *)
(***************************************************************************)
Handler == 1

Next ==
    \/ \E m \in Modes, l \in Limits, ok \in BOOLEAN : LockCheck(Handler, m, l, ok)
    \/ \E ok \in BOOLEAN : StartSyncLockRead(Handler, ok)
    \/ \E ok \in BOOLEAN : StartSyncLockWrite(Handler, ok)
    \/ \E ok \in BOOLEAN : StartBatchMode(Handler, ok)
    \/ \E ok \in BOOLEAN : FetchInitial(Handler, ok)
    \/ \E ok \in BOOLEAN : FetchRetry(Handler, ok)
    \/ \E ok \in BOOLEAN : FetchUpdated(Handler, ok)
    \/ \E failed \in SUBSET OldPages(Handler), c \in Counts(Handler) :
          CreateNotionPage(Handler, failed, c)
    \/ \E ok \in BOOLEAN : Finalize(Handler, ok)
    \/ \E ok \in BOOLEAN : Cleanup(Handler, ok)
    \/ Respond(Handler)
    \/ DoPostError(Handler)
    \/ Crash(Handler)
    \/ \E d \in TickSteps : Tick(d)

Spec == Init /\ [][Next]_vars

(***************************************************************************)
(* SpecFair: requests are served one at a time and every call that leaves  *)
(* the process may fail, as in Spec, but the process does not die, and a   *)
(* run that can take a step takes one: every call it makes returns or      *)
(* raises.  Nothing is assumed about when requests arrive or when the      *)
(* clock moves.                                                            *)
(***************************************************************************)
RunStep ==
    \/ \E ok \in BOOLEAN : StartSyncLockRead(Handler, ok)
    \/ \E ok \in BOOLEAN : StartSyncLockWrite(Handler, ok)
    \/ \E ok \in BOOLEAN : StartBatchMode(Handler, ok)
    \/ \E ok \in BOOLEAN : FetchInitial(Handler, ok)
    \/ \E ok \in BOOLEAN : FetchRetry(Handler, ok)
    \/ \E ok \in BOOLEAN : FetchUpdated(Handler, ok)
    \/ \E failed \in SUBSET OldPages(Handler), c \in Counts(Handler) :
          CreateNotionPage(Handler, failed, c)
    \/ \E ok \in BOOLEAN : Finalize(Handler, ok)
    \/ \E ok \in BOOLEAN : Cleanup(Handler, ok)

NextFair ==
    \/ \E m \in Modes, l \in Limits, ok \in BOOLEAN : LockCheck(Handler, m, l, ok)
    \/ RunStep
    \/ Respond(Handler)
    \/ \E d \in TickSteps : Tick(d)

SpecFair == Init /\ [][NextFair]_vars /\ WF_vars(RunStep)

(***************************************************************************)
(* SpecSteady: requests are served one at a time, the blob store answers   *)
(* every read and write and the process does not die; Shopify queries and  *)
(* Notion calls may fail.                                                  *)
(***************************************************************************)
NextSteady ==
    \/ \E m \in Modes, l \in Limits : LockCheck(Handler, m, l, TRUE)
    \/ StartSyncLockRead(Handler, TRUE)
    \/ StartSyncLockWrite(Handler, TRUE)
    \/ StartBatchMode(Handler, TRUE)
    \/ \E ok \in BOOLEAN : FetchInitial(Handler, ok)
    \/ \E ok \in BOOLEAN : FetchRetry(Handler, ok)
    \/ \E ok \in BOOLEAN : FetchUpdated(Handler, ok)
    \/ \E failed \in SUBSET OldPages(Handler), c \in Counts(Handler) :
          CreateNotionPage(Handler, failed, c)
    \/ Finalize(Handler, TRUE)
    \/ Cleanup(Handler, TRUE)
    \/ Respond(Handler)
    \/ \E d \in TickSteps : Tick(d)

SpecSteady == Init /\ [][NextSteady]_vars

(***************************************************************************)
(* SpecConc: two handlers serve overlapping requests.  The blob store      *)
(* answers every call and no process dies; a Shopify query may fail, and   *)
(* so may the first Notion creation for an order.                          *)
(***************************************************************************)
NextConc ==
    \/ \E p \in Procs, m \in Modes, l \in Limits : LockCheck(p, m, l, TRUE)
    \/ \E p \in Procs : StartSyncLockRead(p, TRUE)
    \/ \E p \in Procs : StartSyncLockWrite(p, TRUE)
    \/ \E p \in Procs : StartBatchMode(p, TRUE)
    \/ \E p \in Procs, ok \in BOOLEAN : FetchInitial(p, ok)
    \/ \E p \in Procs, ok \in BOOLEAN : FetchRetry(p, ok)
    \/ \E p \in Procs, ok \in BOOLEAN : FetchUpdated(p, ok)
    \/ \E p \in Procs : \E c \in {0, FullCount(p)} : CreateNotionPage(p, {}, c)
    \/ \E p \in Procs : Finalize(p, TRUE)
    \/ \E p \in Procs : Cleanup(p, TRUE)
    \/ \E p \in Procs : Respond(p)
    \/ \E d \in TickSteps : Tick(d)

SpecConc == Init /\ [][NextConc]_vars

(***************************************************************************)
(* SpecCalls: methods whose result depends on their argument alone, called *)
(* directly on arguments drawn from bounded sets, one call per behaviour.  *)
(*                                                                         *)
(* An amount is a whole number of currency units.  A line item is given by *)
(* its unit prices (original and discounted) and its quantity.             *)
(***************************************************************************)
Amounts == 1..MaxAmount
Quantities == {1, 2}
LineItemNodes == [original : Amounts, discounted : Amounts, quantity : Quantities]

RECURSIVE SeqsUpTo(_, _)
SeqsUpTo(S, n) ==
    IF n = 0 THEN {<<>>}
    ELSE LET shorter == SeqsUpTo(S, n - 1)
         IN  shorter \cup {Append(s, x) : s \in {t \in shorter : Len(t) = n - 1}, x \in S}

\* The running totals of transform_order_data (lines 290-317).
RECURSIVE Total(_, _)
Total(items, field) ==
    IF items = <<>> THEN 0 ELSE items[1][field] + Total(Tail(items), field)

\* The line items as transform_order_data sees them (lines 307-325).
ProcessedItems(line_items) ==
    [i \in DOMAIN line_items |->
        [listed_for |-> line_items[i].original * line_items[i].quantity,
         sold_for |-> line_items[i].discounted * line_items[i].quantity,
         quantity |-> line_items[i].quantity]]

\* transform_order_data with the totals taken over the unit prices.
TransformOrderDataUnitTotals(name, line_items) ==
    [order_id |-> name,
     total_listed |-> Total(line_items, "original"),
     total_sold |-> Total(line_items, "discounted"),
     is_multi_product |-> Len(line_items) > 1,
     line_items |-> ProcessedItems(line_items)]

\* transform_order_data: the fields create_notion_page reads.
TransformOrderData(name, line_items) ==
    [order_id |-> name,
     total_listed |-> Total(ProcessedItems(line_items), "listed_for"),
     total_sold |-> Total(ProcessedItems(line_items), "sold_for"),
     is_multi_product |-> Len(line_items) > 1,
     line_items |-> ProcessedItems(line_items)]

\* The properties of the pages create_notion_page creates for a transformed
\* order, in creation order, when the page created first gets id parent_id:
\* the "Order ID" (the name, for a line item followed by its number, which
\* stands for f"{order_id}.{i}"), "Listed for", "Sold for" and "Parent item".
\* Without line items line 450 raises before any page is created.
CreatedProperties(td, parent_id) ==
    IF td.line_items = <<>> THEN <<>>
    ELSE <<[order_id |-> <<td.order_id>>,
            listed_for |-> td.total_listed,
            sold_for |-> td.total_sold,
            parent_item |-> None]>>
         \o (IF td.is_multi_product
             THEN [i \in DOMAIN td.line_items |->
                      [order_id |-> <<td.order_id, i>>,
                       listed_for |-> td.line_items[i].listed_for,
                       sold_for |-> td.line_items[i].sold_for,
                       parent_item |-> parent_id]]
             ELSE <<>>)

CreateNotionPageCall(line_items) ==
    /\ call = NoCall
    /\ call' = [fn |-> "create_notion_page",
                arg |-> line_items,
                ret |-> CreatedProperties(TransformOrderData(1, line_items), Len(pages) + 1)]
    /\ UNCHANGED <<blob, pages, shop, now, tz, pc, mode, limit, sync_state, batch_mode,
                   cached_sync_state, sync_strategy, orders, processed_orders,
                   created_pages_count, errors, result, runs, hist, response>>

\* What synced_orders can hold for an order: nothing, a string, a list, or a
\* dict with any of the keys notion_page_ids and notion_page_id (a field
\* whose key is absent is written with its empty value).
PageIdLists == SeqsUpTo(1..MaxIds, 2)

StoredEntries ==
    {[shape |-> "absent"]}
    \cup {[shape |-> "str", value |-> x] : x \in 1..MaxIds}
    \cup {[shape |-> "list", value |-> s] : s \in PageIdLists}
    \cup {[shape |-> "dict", keys |-> {}, notion_page_ids |-> <<>>, notion_page_id |-> None]}
    \cup {[shape |-> "dict", keys |-> {"notion_page_id"},
           notion_page_ids |-> <<>>, notion_page_id |-> x] : x \in 1..MaxIds}
    \cup {[shape |-> "dict", keys |-> {"notion_page_ids"},
           notion_page_ids |-> s, notion_page_id |-> None] : s \in PageIdLists}
    \cup {[shape |-> "dict", keys |-> {"notion_page_ids", "notion_page_id"},
           notion_page_ids |-> s, notion_page_id |-> x] : s \in PageIdLists, x \in 1..MaxIds}

\* get_synced_order_page_ids without the branch of lines 177-179.
PageIdsOfIgnoresString(entry) ==
    IF entry.shape = "list" THEN entry.value
    ELSE IF entry.shape = "dict"
         THEN IF "notion_page_ids" \in entry.keys THEN entry.notion_page_ids
              ELSE IF "notion_page_id" \in entry.keys THEN <<entry.notion_page_id>>
              ELSE <<>>
    ELSE <<>>

\* get_synced_order_page_ids, lines 168-181, on what .get(order_id) gave.
PageIdsOf(entry) ==
    IF entry.shape = "list" THEN entry.value
    ELSE IF entry.shape = "dict"
         THEN IF "notion_page_ids" \in entry.keys THEN entry.notion_page_ids
              ELSE IF "notion_page_id" \in entry.keys THEN <<entry.notion_page_id>>
              ELSE <<>>
    ELSE IF entry.shape = "str" THEN <<entry.value>>
    ELSE <<>>

GetSyncedOrderPageIdsCall(entry) ==
    /\ call = NoCall
    /\ call' = [fn |-> "get_synced_order_page_ids", arg |-> entry, ret |-> PageIdsOf(entry)]
    /\ UNCHANGED <<blob, pages, shop, now, tz, pc, mode, limit, sync_state, batch_mode,
                   cached_sync_state, sync_strategy, orders, processed_orders,
                   created_pages_count, errors, result, runs, hist, response>>

\* get_payment_status (lines 228-267).  displayFinancialStatus as Shopify
\* sends it (upper case), in lower case, absent (""), or a value the mapping
\* does not know; str.lower() on these values.
FinancialStatuses ==
    {"PENDING", "AUTHORIZED", "PARTIALLY_PAID", "PAID", "PARTIALLY_REFUNDED",
     "REFUNDED", "VOIDED", "EXPIRED", "paid", "", "ON_HOLD"}

Lower(s) ==
    CASE s = "PENDING" -> "pending"
      [] s = "AUTHORIZED" -> "authorized"
      [] s = "PARTIALLY_PAID" -> "partially_paid"
      [] s = "PAID" -> "paid"
      [] s = "PARTIALLY_REFUNDED" -> "partially_refunded"
      [] s = "REFUNDED" -> "refunded"
      [] s = "VOIDED" -> "voided"
      [] s = "EXPIRED" -> "expired"
      [] s = "ON_HOLD" -> "on_hold"
      [] OTHER -> s

\* status_mapping, lines 234-243.
MappedStatuses ==
    {"pending", "authorized", "partially_paid", "paid", "partially_refunded",
     "refunded", "voided", "expired"}

StatusMapping(s) ==
    CASE s = "pending" -> "Pending"
      [] s = "authorized" -> "Authorized"
      [] s = "partially_paid" -> "Partially Paid"
      [] s = "paid" -> "Paid"
      [] s = "partially_refunded" -> "Partially Refunded"
      [] s = "refunded" -> "Refunded"
      [] s = "voided" -> "Voided"
      [] s = "expired" -> "Expired"

\* The transactions of an order: kind and status of each.
TransactionNodes == [kind : {"sale", "refund", "void"}, status : {"success", "pending"}]

\* any(t.get('kind') == kind and t.get('status') == 'success' ...), lines 254-256.
HasSuccessful(transactions, kind) ==
    \E i \in DOMAIN transactions :
        transactions[i].kind = kind /\ transactions[i].status = "success"

\* get_payment_status testing has_refund before "has_refund and has_sale".
GetPaymentStatusRefundFirst(financial_status, transactions) ==
    IF Lower(financial_status) \in MappedStatuses THEN StatusMapping(Lower(financial_status))
    ELSE IF transactions = <<>> THEN "Unknown"
    ELSE IF HasSuccessful(transactions, "void") THEN "Voided"
    ELSE IF HasSuccessful(transactions, "refund") THEN "Refunded"
    ELSE IF HasSuccessful(transactions, "refund") /\ HasSuccessful(transactions, "sale")
         THEN "Partially Refunded"
    ELSE IF HasSuccessful(transactions, "sale") THEN "Paid"
    ELSE "Pending"

GetPaymentStatus(financial_status, transactions) ==
    IF Lower(financial_status) \in MappedStatuses THEN StatusMapping(Lower(financial_status))
    ELSE IF transactions = <<>> THEN "Unknown"
    ELSE IF HasSuccessful(transactions, "void") THEN "Voided"
    ELSE IF HasSuccessful(transactions, "refund") /\ HasSuccessful(transactions, "sale")
         THEN "Partially Refunded"
    ELSE IF HasSuccessful(transactions, "refund") THEN "Refunded"
    ELSE IF HasSuccessful(transactions, "sale") THEN "Paid"
    ELSE "Pending"

GetPaymentStatusCall(financial_status, transactions) ==
    /\ call = NoCall
    /\ call' = [fn |-> "get_payment_status",
                arg |-> <<financial_status, transactions>>,
                ret |-> GetPaymentStatus(financial_status, transactions)]
    /\ UNCHANGED <<blob, pages, shop, now, tz, pc, mode, limit, sync_state, batch_mode,
                   cached_sync_state, sync_strategy, orders, processed_orders,
                   created_pages_count, errors, result, runs, hist, response>>

\* How an optional structure of a fetched order can arrive: the key is
\* missing, its value is null, its value is empty ({}, [] or ""), or it is
\* there with content.
Shapes == {"absent", "null", "empty", "present"}

\* The optional structures of an order that transform_order_data reads.
Structures ==
    {"customer", "totalTaxSet", "displayFinancialStatus", "transactions", "fees",
     "variant", "priceSets"}

\* The orders transform_order_data is given: the shape of each optional
\* structure (one line item, one transaction, one fee when present).  Any
\* subset of the structures is missing, all of it in the same way.
OrderShapes ==
    {[s \in Structures |-> IF s \in missing THEN how ELSE "present"] :
        missing \in SUBSET Structures, how \in Shapes \ {"present"}}

\* get_safe_amount (lines 219-226): a price set that is missing, None or
\* empty is falsy and the default 0.0 is returned; the amount present is 1.
GetSafeAmount(price_set) == IF price_set = "present" THEN 1 ELSE 0

\* calculate_fees (lines 206-217): iterating over None raises TypeError,
\* which is caught; fees missing, None or empty are skipped.
CalculateFees(transactions, fees) ==
    IF transactions = "present" /\ fees = "present" THEN 1 ELSE 0

\* order.get('displayFinancialStatus', '').lower(), line 230: the default
\* stands in for a missing key only; a null value is None, and None has no
\* lower().
FinancialStatusRaises(financial_status) == financial_status = "null"

\* The status get_payment_status reads for a shape, and its transactions.
StatusOf(financial_status) == IF financial_status = "present" THEN "PAID" ELSE ""

TransactionsOf(transactions) ==
    IF transactions = "present" THEN <<[kind |-> "sale", status |-> "success"]>> ELSE <<>>

\* "x.get(k, {}).get(...) if x.get(k) else ''" (lines 276 and 298-299):
\* whether the inner value is reached.
Reached(shape) == shape = "present"

\* transform_order_data (lines 269-345) on an order of the given shape:
\* whether it raises, and what it returns otherwise.
TransformOptional(order) ==
    IF FinancialStatusRaises(order.displayFinancialStatus)
    THEN [raised |-> TRUE]
    ELSE [raised |-> FALSE,
          customer_name |-> Reached(order.customer),
          variant_title |-> Reached(order.variant),
          total_tax |-> GetSafeAmount(order.totalTaxSet),
          total_fees |-> CalculateFees(order.transactions, order.fees),
          total_listed |-> GetSafeAmount(order.priceSets),
          total_sold |-> GetSafeAmount(order.priceSets),
          payment_status |-> GetPaymentStatus(StatusOf(order.displayFinancialStatus),
                                              TransactionsOf(order.transactions))]

TransformOrderDataCall(order) ==
    /\ call = NoCall
    /\ call' = [fn |-> "transform_order_data", arg |-> order, ret |-> TransformOptional(order)]
    /\ UNCHANGED <<blob, pages, shop, now, tz, pc, mode, limit, sync_state, batch_mode,
                   cached_sync_state, sync_strategy, orders, processed_orders,
                   created_pages_count, errors, result, runs, hist, response>>

NextCalls ==
    \/ \E order \in OrderShapes : TransformOrderDataCall(order)
    \/ \E line_items \in SeqsUpTo(LineItemNodes, MaxLineItems) : CreateNotionPageCall(line_items)
    \/ \E entry \in StoredEntries : GetSyncedOrderPageIdsCall(entry)
    \/ \E fs \in FinancialStatuses, txs \in SeqsUpTo(TransactionNodes, MaxTransactions) :
          GetPaymentStatusCall(fs, txs)

SpecCalls == Init /\ [][NextCalls]_vars

(***************************************************************************)
(* SpecStore: the methods of one SyncBlobStorage object called directly,   *)
(* in any order, outside a run.  Each call is one step (the object is used *)
(* by one thread); its blob read (rok) and its blob write (wok) may fail.  *)
(***************************************************************************)
\* get_sync_state: the cache in batch mode, else the blob (lines 113-122).
GetSyncState(p, rok) ==
    IF batch_mode[p] THEN cached_sync_state[p] ELSE ReadBlob(blob, rok)

\* is_sync_in_progress evaluating get_sync_state() instead of the blob.
LockStateReadCached(p, rok) == GetSyncState(p, rok)

\* The state is_sync_in_progress evaluates (lines 255-257).
LockStateRead(p, rok) == ReadBlob(blob, rok)

Called(fn, ret) == [fn |-> fn, arg |-> <<>>, ret |-> ret]

\* The observation hist.unbatched of a call made in batch mode: st is what
\* the call would have put, outside batch mode, on the state observed so far.
Observe(p, st) ==
    hist' = [hist EXCEPT ![p].unbatched = IF batch_mode[p] THEN st ELSE @]

StartBatchModeCall(p, rok) ==
    /\ pc[p] = "idle"
    /\ batch_mode' = [batch_mode EXCEPT ![p] = TRUE]
    /\ cached_sync_state' = [cached_sync_state EXCEPT ![p] =
           IF batch_mode[p] THEN @ ELSE ReadBlob(blob, rok)]
    /\ hist' = [hist EXCEPT ![p].unbatched = IF batch_mode[p] THEN @ ELSE blob]
    /\ call' = Called("start_batch_mode", <<>>)
    /\ UNCHANGED <<blob, pages, shop, now, tz, pc, mode, limit, sync_state,
                   sync_strategy, orders, processed_orders, created_pages_count,
                   errors, result, runs, response>>

\* end_batch_mode: out of batch mode first, then the cache is put; it
\* returns whether the put succeeded (True when not in batch mode).
EndBatchModeCall(p, wok) ==
    /\ pc[p] = "idle"
    /\ blob' = IF batch_mode[p] THEN EndBatchMode(blob, cached_sync_state[p], wok) ELSE blob
    /\ batch_mode' = [batch_mode EXCEPT ![p] = FALSE]
    /\ cached_sync_state' = [cached_sync_state EXCEPT ![p] = InitialSyncState]
    /\ hist' = [hist EXCEPT ![p].unbatched = InitialSyncState]
    /\ call' = Called("end_batch_mode", batch_mode[p] => wok)
    /\ UNCHANGED <<pages, shop, now, tz, pc, mode, limit, sync_state,
                   sync_strategy, orders, processed_orders, created_pages_count,
                   errors, result, runs, response>>

\* start_sync_lock: the state from get_sync_state with the lock set is put
\* with batch mode switched off for the put (lines 283-286), and also
\* becomes the cache in batch mode (lines 294-295).
StartSyncLockCall(p, rok, wok) ==
    /\ pc[p] = "idle"
    /\ LET st == StartSyncLockState(GetSyncState(p, rok), now, tz)
       IN  /\ blob' = IF wok THEN st ELSE blob
           /\ cached_sync_state' = [cached_sync_state EXCEPT ![p] =
                  IF batch_mode[p] THEN st ELSE @]
    /\ Observe(p, StartSyncLockState(hist[p].unbatched, now, tz))
    /\ call' = Called("start_sync_lock", <<>>)
    /\ UNCHANGED <<pages, shop, now, tz, pc, mode, limit, sync_state, batch_mode,
                   sync_strategy, orders, processed_orders, created_pages_count,
                   errors, result, runs, response>>

\* end_sync_lock: in batch mode the cache alone changes (lines 303-304),
\* else the state is put (line 306).
EndSyncLockCall(p, rok, wok) ==
    /\ pc[p] = "idle"
    /\ LET st == EndSyncLockState(GetSyncState(p, rok))
       IN  IF batch_mode[p]
           THEN /\ cached_sync_state' = [cached_sync_state EXCEPT ![p] = st]
                /\ UNCHANGED blob
           ELSE /\ blob' = IF wok THEN st ELSE blob
                /\ UNCHANGED cached_sync_state
    /\ Observe(p, EndSyncLockState(hist[p].unbatched))
    /\ call' = Called("end_sync_lock", <<>>)
    /\ UNCHANGED <<pages, shop, now, tz, pc, mode, limit, sync_state, batch_mode,
                   sync_strategy, orders, processed_orders, created_pages_count,
                   errors, result, runs, response>>

IsSyncInProgressCall(p, rok) ==
    /\ pc[p] = "idle"
    /\ call' = Called("is_sync_in_progress", IsSyncInProgress(LockStateRead(p, rok), now))
    /\ UNCHANGED <<blob, pages, shop, now, tz, pc, mode, limit, sync_state, batch_mode,
                   cached_sync_state, sync_strategy, orders, processed_orders,
                   created_pages_count, errors, result, runs, hist, response>>

\* mark_order_failed: get_sync_state, the append, save_sync_state (which in
\* batch mode replaces the cache, lines 126-130, and else puts the blob).
MarkOrderFailedCall(p, o, rok, wok) ==
    /\ pc[p] = "idle"
    /\ LET st == MarkOrderFailed(GetSyncState(p, rok), o)
       IN  IF batch_mode[p]
           THEN /\ cached_sync_state' = [cached_sync_state EXCEPT ![p] = st]
                /\ UNCHANGED blob
           ELSE /\ blob' = IF wok THEN st ELSE blob
                /\ UNCHANGED cached_sync_state
    /\ Observe(p, MarkOrderFailed(hist[p].unbatched, o))
    /\ call' = Called("mark_order_failed", <<>>)
    /\ UNCHANGED <<pages, shop, now, tz, pc, mode, limit, sync_state, batch_mode,
                   sync_strategy, orders, processed_orders, created_pages_count,
                   errors, result, runs, response>>

NextStore ==
    \/ \E rok \in BOOLEAN : StartBatchModeCall(Handler, rok)
    \/ \E wok \in BOOLEAN : EndBatchModeCall(Handler, wok)
    \/ \E rok, wok \in BOOLEAN : StartSyncLockCall(Handler, rok, wok)
    \/ \E rok, wok \in BOOLEAN : EndSyncLockCall(Handler, rok, wok)
    \/ \E rok \in BOOLEAN : IsSyncInProgressCall(Handler, rok)
    \/ \E o \in OrderNames, rok, wok \in BOOLEAN : MarkOrderFailedCall(Handler, o, rok, wok)
    \/ \E d \in TickSteps : Tick(d)

SpecStore == Init /\ [][NextStore]_vars

(***************************************************************************)
(* SpecBatch: the order bookkeeping of one SyncBlobStorage object called   *)
(* directly, in any order, in and out of batch mode, on a blob store that  *)
(* answers every read and write.                                           *)
(***************************************************************************)
\* save_sync_state (lines 124-151): in batch mode the state becomes the
\* cache, else it is put (wok: the put succeeds).
SaveSyncState(p, st, wok) ==
    IF batch_mode[p]
    THEN /\ cached_sync_state' = [cached_sync_state EXCEPT ![p] = st]
         /\ UNCHANGED blob
    ELSE /\ blob' = IF wok THEN st ELSE blob
         /\ UNCHANGED cached_sync_state

UpdateResumePoint(st, updated_at) == [st EXCEPT !.last_processed_updated_at = updated_at]

\* The order that is marked synced and read back (any order may be marked
\* failed), and the id lists and update times the calls are made with.
MarkedOrders == {1}
MarkedIdLists == {<<1>>, <<2, MaxIds>>}
UpdateTimes == 1..MaxTime

MarkOrderSyncedCall(p, o, ids, updated_at, rok, wok) ==
    /\ pc[p] = "idle"
    /\ SaveSyncState(p, MarkOrderSynced(GetSyncState(p, rok), o, ids, updated_at), wok)
    /\ Observe(p, MarkOrderSynced(hist[p].unbatched, o, ids, updated_at))
    /\ call' = [fn |-> "mark_order_synced", arg |-> <<o, ids, updated_at>>, ret |-> <<>>]
    /\ UNCHANGED <<pages, shop, now, tz, pc, mode, limit, sync_state, batch_mode,
                   sync_strategy, orders, processed_orders, created_pages_count,
                   errors, result, runs, response>>

UpdateResumePointCall(p, updated_at, rok, wok) ==
    /\ pc[p] = "idle"
    /\ SaveSyncState(p, UpdateResumePoint(GetSyncState(p, rok), updated_at), wok)
    /\ Observe(p, UpdateResumePoint(hist[p].unbatched, updated_at))
    /\ call' = [fn |-> "update_resume_point", arg |-> <<updated_at>>, ret |-> <<>>]
    /\ UNCHANGED <<pages, shop, now, tz, pc, mode, limit, sync_state, batch_mode,
                   sync_strategy, orders, processed_orders, created_pages_count,
                   errors, result, runs, response>>

\* complete_sync() as the run calls it: the timestamp is the clock's.
CompleteSyncCall(p, rok, wok) ==
    /\ pc[p] = "idle"
    /\ SaveSyncState(p, CompleteSync(GetSyncState(p, rok), LocalNow(now, tz)), wok)
    /\ Observe(p, CompleteSync(hist[p].unbatched, LocalNow(now, tz)))
    /\ call' = Called("complete_sync", <<>>)
    /\ UNCHANGED <<pages, shop, now, tz, pc, mode, limit, sync_state, batch_mode,
                   sync_strategy, orders, processed_orders, created_pages_count,
                   errors, result, runs, response>>

\* get_synced_order_page_ids(o) on the state get_sync_state gives.
SyncedOrderPageIdsCall(p, o, rok) ==
    /\ pc[p] = "idle"
    /\ call' = [fn |-> "get_synced_order_page_ids", arg |-> <<o>>,
                ret |-> GetSyncedOrderPageIds(GetSyncState(p, rok), o)]
    /\ UNCHANGED <<blob, pages, shop, now, tz, pc, mode, limit, sync_state, batch_mode,
                   cached_sync_state, sync_strategy, orders, processed_orders,
                   created_pages_count, errors, result, runs, hist, response>>

NextBatch ==
    \/ StartBatchModeCall(Handler, TRUE)
    \/ EndBatchModeCall(Handler, TRUE)
    \/ \E o \in MarkedOrders, ids \in MarkedIdLists, t \in UpdateTimes :
          MarkOrderSyncedCall(Handler, o, ids, t, TRUE, TRUE)
    \/ \E o \in OrderNames : MarkOrderFailedCall(Handler, o, TRUE, TRUE)
    \/ \E t \in UpdateTimes : UpdateResumePointCall(Handler, t, TRUE, TRUE)
    \/ CompleteSyncCall(Handler, TRUE, TRUE)
    \/ \E o \in MarkedOrders : SyncedOrderPageIdsCall(Handler, o, TRUE)

SpecBatch == Init /\ [][NextBatch]_vars

(***************************************************************************)
(* SpecDb: the methods of one SyncDatabaseStorage object                   *)
(* (src/lib/_python_backup/sync_storage.py) called directly, in any order, *)
(* on a database that executes every statement.  blob stands for the rows  *)
(* of its three tables, as get_sync_state presents them.                   *)
(***************************************************************************)
\* What every method does with its change: in batch mode the cache is
\* changed in place and the method returns, else the rows are changed.
DbWrite(p, in_cache, in_db) ==
    IF batch_mode[p]
    THEN /\ cached_sync_state' = [cached_sync_state EXCEPT ![p] = in_cache]
         /\ UNCHANGED blob
    ELSE /\ blob' = in_db
         /\ UNCHANGED cached_sync_state

\* The upsert of mark_order_failed: a row that exists gets failed_at = NOW(),
\* and get_sync_state lists the rows by failed_at.
DbMarkOrderFailed(st, o) == [st EXCEPT !.failed_orders = Append(Remove(@, o), o)]

\* start_batch_mode: get_sync_state() becomes the cache.
DbStartBatchModeCall(p) ==
    /\ pc[p] = "idle"
    /\ batch_mode' = [batch_mode EXCEPT ![p] = TRUE]
    /\ cached_sync_state' = [cached_sync_state EXCEPT ![p] =
           IF batch_mode[p] THEN @ ELSE blob]
    /\ hist' = [hist EXCEPT ![p].unbatched = IF batch_mode[p] THEN @ ELSE blob]
    /\ call' = Called("start_batch_mode", <<>>)
    /\ UNCHANGED <<blob, pages, shop, now, tz, pc, mode, limit, sync_state,
                   sync_strategy, orders, processed_orders, created_pages_count,
                   errors, result, runs, response>>

\* end_batch_mode: out of batch mode, and the cache is dropped.
DbEndBatchModeCall(p) ==
    /\ pc[p] = "idle"
    /\ batch_mode' = [batch_mode EXCEPT ![p] = FALSE]
    /\ cached_sync_state' = [cached_sync_state EXCEPT ![p] = InitialSyncState]
    /\ hist' = [hist EXCEPT ![p].unbatched = InitialSyncState]
    /\ call' = Called("end_batch_mode", TRUE)
    /\ UNCHANGED <<blob, pages, shop, now, tz, pc, mode, limit, sync_state,
                   sync_strategy, orders, processed_orders, created_pages_count,
                   errors, result, runs, response>>

DbMarkOrderSyncedCall(p, o, ids, updated_at) ==
    /\ pc[p] = "idle"
    /\ DbWrite(p, MarkOrderSynced(cached_sync_state[p], o, ids, updated_at),
                  MarkOrderSynced(blob, o, ids, updated_at))
    /\ Observe(p, MarkOrderSynced(hist[p].unbatched, o, ids, updated_at))
    /\ call' = [fn |-> "mark_order_synced", arg |-> <<o, ids, updated_at>>, ret |-> <<>>]
    /\ UNCHANGED <<pages, shop, now, tz, pc, mode, limit, sync_state, batch_mode,
                   sync_strategy, orders, processed_orders, created_pages_count,
                   errors, result, runs, response>>

DbMarkOrderFailedCall(p, o) ==
    /\ pc[p] = "idle"
    /\ DbWrite(p, MarkOrderFailed(cached_sync_state[p], o), DbMarkOrderFailed(blob, o))
    /\ Observe(p, DbMarkOrderFailed(hist[p].unbatched, o))
    /\ call' = Called("mark_order_failed", <<>>)
    /\ UNCHANGED <<pages, shop, now, tz, pc, mode, limit, sync_state, batch_mode,
                   sync_strategy, orders, processed_orders, created_pages_count,
                   errors, result, runs, response>>

DbUpdateResumePointCall(p, updated_at) ==
    /\ pc[p] = "idle"
    /\ DbWrite(p, UpdateResumePoint(cached_sync_state[p], updated_at),
                  UpdateResumePoint(blob, updated_at))
    /\ Observe(p, UpdateResumePoint(hist[p].unbatched, updated_at))
    /\ call' = [fn |-> "update_resume_point", arg |-> <<updated_at>>, ret |-> <<>>]
    /\ UNCHANGED <<pages, shop, now, tz, pc, mode, limit, sync_state, batch_mode,
                   sync_strategy, orders, processed_orders, created_pages_count,
                   errors, result, runs, response>>

DbCompleteSyncCall(p) ==
    /\ pc[p] = "idle"
    /\ DbWrite(p, CompleteSync(cached_sync_state[p], LocalNow(now, tz)),
                  CompleteSync(blob, LocalNow(now, tz)))
    /\ Observe(p, CompleteSync(hist[p].unbatched, LocalNow(now, tz)))
    /\ call' = Called("complete_sync", <<>>)
    /\ UNCHANGED <<pages, shop, now, tz, pc, mode, limit, sync_state, batch_mode,
                   sync_strategy, orders, processed_orders, created_pages_count,
                   errors, result, runs, response>>

\* start_sync_lock: the row is updated with NOW() whatever the mode, and in
\* batch mode the cache is given the lock too.
DbStartSyncLockCall(p) ==
    /\ pc[p] = "idle"
    /\ blob' = [blob EXCEPT !.sync_in_progress = TRUE, !.sync_started_at = now]
    /\ cached_sync_state' = [cached_sync_state EXCEPT ![p] =
           IF batch_mode[p] THEN StartSyncLockState(@, now, tz) ELSE @]
    /\ Observe(p, [hist[p].unbatched EXCEPT !.sync_in_progress = TRUE,
                                            !.sync_started_at = now])
    /\ call' = Called("start_sync_lock", <<>>)
    /\ UNCHANGED <<pages, shop, now, tz, pc, mode, limit, sync_state, batch_mode,
                   sync_strategy, orders, processed_orders, created_pages_count,
                   errors, result, runs, response>>

DbEndSyncLockCall(p) ==
    /\ pc[p] = "idle"
    /\ DbWrite(p, EndSyncLockState(cached_sync_state[p]), EndSyncLockState(blob))
    /\ Observe(p, EndSyncLockState(hist[p].unbatched))
    /\ call' = Called("end_sync_lock", <<>>)
    /\ UNCHANGED <<pages, shop, now, tz, pc, mode, limit, sync_state, batch_mode,
                   sync_strategy, orders, processed_orders, created_pages_count,
                   errors, result, runs, response>>

\* is_sync_in_progress: the row is read, whatever the mode.
DbIsSyncInProgressCall(p) ==
    /\ pc[p] = "idle"
    /\ call' = Called("is_sync_in_progress", IsSyncInProgress(blob, now))
    /\ UNCHANGED <<blob, pages, shop, now, tz, pc, mode, limit, sync_state, batch_mode,
                   cached_sync_state, sync_strategy, orders, processed_orders,
                   created_pages_count, errors, result, runs, hist, response>>

\* get_synced_order_page_ids: the cache's entry in batch mode, else the row.
DbSyncedOrderPageIdsCall(p, o) ==
    /\ pc[p] = "idle"
    /\ call' = [fn |-> "get_synced_order_page_ids", arg |-> <<o>>,
                ret |-> GetSyncedOrderPageIds(
                            IF batch_mode[p] THEN cached_sync_state[p] ELSE blob, o)]
    /\ UNCHANGED <<blob, pages, shop, now, tz, pc, mode, limit, sync_state, batch_mode,
                   cached_sync_state, sync_strategy, orders, processed_orders,
                   created_pages_count, errors, result, runs, hist, response>>

NextDb ==
    \/ DbStartBatchModeCall(Handler)
    \/ DbEndBatchModeCall(Handler)
    \/ \E o \in MarkedOrders, ids \in MarkedIdLists, t \in UpdateTimes :
          DbMarkOrderSyncedCall(Handler, o, ids, t)
    \/ \E o \in OrderNames : DbMarkOrderFailedCall(Handler, o)
    \/ \E t \in UpdateTimes : DbUpdateResumePointCall(Handler, t)
    \/ DbCompleteSyncCall(Handler)
    \/ DbStartSyncLockCall(Handler)
    \/ DbEndSyncLockCall(Handler)
    \/ DbIsSyncInProgressCall(Handler)
    \/ \E o \in MarkedOrders : DbSyncedOrderPageIdsCall(Handler, o)

SpecDb == Init /\ [][NextDb]_vars

(***************************************************************************)
(* Properties.                                                             *)
(***************************************************************************)
\* A run that is past its lock check and has not returned.
InRun(p) == pc[p] \notin {"idle", "respond"}

NoRunActive == \A p \in Procs : ~InRun(p)

Returned(p, kinds) == pc[p] = "respond" /\ result[p].kind \in kinds

LockFree(b) == ~b.sync_in_progress /\ b.sync_started_at = None

Gap(a, b) == IF a >= b THEN a - b ELSE b - a

\* C1 (as claimed): of two run attempts that overlap, exactly one proceeds
\* past the lock check: two runs are never both past it, unless their checks
\* lie more than the staleness timeout apart (a stale lock may be taken over).
C1_OneRunPastLockCheck ==
    \A p, q \in Procs :
        (p # q /\ InRun(p) /\ InRun(q)) =>
            Gap(hist[p].checked_at, hist[q].checked_at) > StaleMinutes

C3_StaleLockRule ==
    [][\A m \in Modes, l \in Limits :
          (/\ LockCheck(Handler, m, l, TRUE)
           /\ blob.sync_in_progress
           /\ blob.sync_started_at # None)
          => IF now - blob.sync_started_at > StaleMinutes
             THEN pc'[Handler] = "start_sync_lock"
             ELSE pc'[Handler] = "respond" /\ result'[Handler].kind = "blocked"]_vars

\* C3 witness: a run got past the lock check although the persisted lock is
\* held, acquired 11 minutes ago.
C3_Witness ==
    /\ pc[Handler] = "start_sync_lock"
    /\ blob.sync_in_progress
    /\ now - blob.sync_started_at = StaleMinutes + 1

\* C4 (as claimed): the persisted resume checkpoint never decreases.
C4_CheckpointNeverDecreases ==
    [][blob'.last_processed_updated_at >= blob.last_processed_updated_at]_vars

\* C5 (as claimed): whenever no run is active, every order has at most one
\* parent page that is not archived.
C5_OneLiveParentPerOrder ==
    NoRunActive => \A o \in DOMAIN shop : Cardinality(LiveParents(pages, o)) <= 1

\* The last record a run has marked synced (None when there is none).
LastSynced(log) ==
    LET oks == SelectSeq(log, LAMBDA e : e.ok)
    IN  IF oks = <<>> THEN None ELSE oks[Len(oks)].name

\* C6 (as claimed): when a run dies after it marked record N synced, the
\* persisted state holds N's update time as the resume checkpoint and N's
\* synced-order entry.
C6_CrashKeepsLastRecord ==
    [][(Crash(Handler) /\ LastSynced(hist[Handler].log) # None) =>
          LET n == LastSynced(hist[Handler].log)
          IN  /\ blob'.last_processed_updated_at = shop[n].updatedAt
              /\ n \in DOMAIN blob'.synced_orders
              /\ blob'.synced_orders[n] = cached_sync_state[Handler].synced_orders[n]]_vars

\* The names of the records of a log that failed, in order; those whose
\* failure no later success of the same record followed; those that succeeded.
Failures(log) == Names(SelectSeq(log, LAMBDA e : ~e.ok))

OpenFailures(log) ==
    {log[i].name : i \in {k \in DOMAIN log :
        ~log[k].ok /\ \A j \in DOMAIN log : (j > k /\ log[j].name = log[k].name) => ~log[j].ok}}

Successes(log) == {log[i].name : i \in {k \in DOMAIN log : log[k].ok}}

\* C7: a failed destination write does not end the run.  The records are
\* processed in fetch order and none is dropped, also after a failure; no
\* exception is pending while fetched records wait; every success has a
\* synced-order entry and every failure not made good later is in
\* failed_orders; the run returns status success with the failed names as
\* its errors, and what it flushed holds those entries.
C7_PartialFailureIsolation ==
    \A p \in Procs :
        LET h == hist[p]
            st == cached_sync_state[p]
        IN  /\ InRun(p) =>
                /\ h.fetched = Names(h.log) \o Names(orders[p])
                /\ errors[p] = Failures(h.log)
                /\ processed_orders[p] = Len(h.log) - Len(Failures(h.log))
                /\ Successes(h.log) \subseteq DOMAIN st.synced_orders
                /\ OpenFailures(h.log) \subseteq Range(st.failed_orders)
            /\ pc[p] \in {"finalize", "except"} => orders[p] = <<>>
            /\ Returned(p, {"summary"}) =>
                /\ result[p].status = "success"
                /\ result[p].errors = Failures(h.log)
                /\ Len(h.log) = Len(h.fetched)
                /\ h.flushed =>
                      /\ Successes(h.log) \subseteq DOMAIN blob.synced_orders
                      /\ OpenFailures(h.log) \subseteq Range(blob.failed_orders)

\* C7 witness: a run has returned its summary after a record failed and a
\* record fetched after it was synced.
C7_Witness ==
    /\ Returned(Handler, {"summary"})
    /\ hist[Handler].flushed
    /\ \E i, j \in DOMAIN hist[Handler].log :
          /\ i < j
          /\ ~hist[Handler].log[i].ok
          /\ hist[Handler].log[j].ok
          /\ hist[Handler].log[i].name # hist[Handler].log[j].name

C9_SyncedAndFailedDisjoint ==
    \A o \in DOMAIN shop :
        ~(o \in DOMAIN blob.synced_orders /\ o \in Range(blob.failed_orders))

\* C10: a run whose lock check reads a held lock that is not stale returns
\* the blocked result at once, and neither that step nor the response that
\* follows changes the persisted state, the Notion pages or anything the
\* storage object holds.
C10_BlockedRunTouchesNothing ==
    [][/\ \A m \in Modes, l \in Limits :
             (LockCheck(Handler, m, l, TRUE) /\ IsSyncInProgress(blob, now)) =>
                 /\ pc'[Handler] = "respond"
                 /\ result'[Handler] = BlockedResult
       /\ (result[Handler].kind = "blocked" \/ result'[Handler].kind = "blocked") =>
             /\ UNCHANGED <<blob, pages, batch_mode, cached_sync_state, orders>>
             /\ hist'[Handler].fetched = <<>>
             /\ hist'[Handler].log = <<>>]_vars

\* C10 witness: a run has returned the blocked result.
C10_Witness == Returned(Handler, {"blocked"}) /\ blob.sync_in_progress

\* C11 (as claimed): the status a blocked run returns differs from the status
\* of a successful run and from the status of a run that failed fatally.
C11_BlockedStatusDistinct ==
    \A p \in Procs :
        Returned(p, {"blocked"}) =>
            /\ result[p].status # "success"
            /\ result[p].status # ErrorSummary.status

\* C12 (as claimed): the response do_POST sends for a run that failed fatally
\* has a status code other than 200 and an error body.
C12_FatalRunAnsweredNon200 ==
    \A p \in Procs :
        response[p].sync_results.kind = "fatal" =>
            /\ response[p].code # 200
            /\ response[p].status = "error"

\* Whether a listing is in ascending order of update time.
Ascending(s) == \A i, j \in DOMAIN s : i < j => s[i].updatedAt <= s[j].updatedAt

\* C13: a smart run whose read of the persisted state succeeds chooses the
\* initial strategy exactly when the persisted last_sync is None, and the
\* smart (incremental) one otherwise; the fetch of the initial strategy
\* returns the oldest orders of the whole shop, as many as the limit allows,
\* in ascending order of update time.
C13_InitialIffNeverSynced ==
    [][/\ (StartBatchMode(Handler, TRUE) /\ mode[Handler] = "smart") =>
             /\ sync_strategy'[Handler].sync_type =
                    IF blob.last_sync = None THEN "initial" ELSE "smart"
             /\ (pc'[Handler] = "fetch_initial") <=> (blob.last_sync = None)
       /\ (FetchInitial(Handler, TRUE) /\ mode[Handler] = "smart") =>
             /\ Ascending(orders'[Handler])
             /\ Len(orders'[Handler]) = Min(limit[Handler], Cardinality(DOMAIN shop))
             /\ \A o \in DOMAIN shop :
                   o \notin Range(Names(orders'[Handler])) =>
                       \A i \in DOMAIN orders'[Handler] :
                           orders'[Handler][i].updatedAt <= shop[o].updatedAt]_vars

\* C13 witness: a smart run that found last_sync set has chosen the smart
\* strategy and is about to make its incremental fetches.
C13_Witness ==
    /\ mode[Handler] = "smart"
    /\ pc[Handler] \in {"fetch_retry", "fetch_updated"}
    /\ blob.last_sync # None
    /\ sync_strategy[Handler].sync_type = "smart"


Max(a, b) == IF a >= b THEN a ELSE b

\* Whether the listing s is what a query for the orders updated at or after
\* bound returns, oldest first and cut at lim: nothing older than the bound,
\* and nothing at or after it left out unless the listing is full and holds
\* only orders that are not newer.
FetchedFrom(s, bound, lim) ==
    /\ Ascending(s)
    /\ \A i \in DOMAIN s : s[i].updatedAt >= bound
    /\ \A o \in DOMAIN shop :
          (shop[o].updatedAt >= bound /\ o \notin Range(Names(s))) =>
              /\ Len(s) = lim
              /\ \A i \in DOMAIN s : s[i].updatedAt <= shop[o].updatedAt

\* C14 (as claimed): the timestamp-bounded fetch of an incremental run uses
\* the larger of the persisted resume checkpoint and the persisted last_sync
\* as its lower bound.
C14_LowerBoundIsMax ==
    [][FetchUpdated(Handler, TRUE) =>
          FetchedFrom(orders'[Handler],
                      Max(blob.last_processed_updated_at, blob.last_sync),
                      limit[Handler])]_vars

\* C14 (amended): it uses the persisted resume checkpoint when there is one,
\* and the persisted last_sync only when there is none.
C14_LowerBoundIsCheckpointElseLastSync ==
    [][FetchUpdated(Handler, TRUE) =>
          FetchedFrom(orders'[Handler],
                      IF blob.last_processed_updated_at # None
                      THEN blob.last_processed_updated_at
                      ELSE blob.last_sync,
                      limit[Handler])]_vars

\* C14 witness: an incremental run whose persisted checkpoint is older than
\* its persisted last_sync has fetched an order updated before last_sync.
C14_Witness ==
    /\ pc[Handler] = "updated_loop"
    /\ blob.last_processed_updated_at # None
    /\ blob.last_processed_updated_at < blob.last_sync
    /\ Head(orders[Handler]).updatedAt < blob.last_sync


C16_ArchiveThenReplace ==
    [][\A failed \in SUBSET OldPages(Handler), c \in Counts(Handler) :
          LET o == Head(orders[Handler]).name
              existing == GetSyncedOrderPageIds(cached_sync_state[Handler], o)
              entry == cached_sync_state'[Handler].synced_orders[o]
          IN  (CreateNotionPage(Handler, failed, c) /\ existing # <<>>) =>
                 /\ \A i \in Range(existing) \ failed : pages'[i].archived
                 /\ \A i \in (DOMAIN pages') \ (DOMAIN pages) : ~pages'[i].archived
                 /\ PageCreated(Head(orders[Handler]).items, c) =>
                       /\ Len(entry) = c
                       /\ \A k \in 1..c : entry[k] = Len(pages) + k
                       /\ Range(entry) \cap Range(existing) = {}
                       /\ pages'[entry[1]].parent = 0
                       /\ \A k \in 2..c : pages'[entry[k]].parent = entry[1]
                       /\ \A k \in 1..c : pages'[entry[k]].order = o]_vars

\* C16 witness: within a run, an order's entry names live pages only, and an
\* older page of the same order, not in the entry, is archived.
C16_Witness ==
    /\ InRun(Handler)
    /\ \E o \in DOMAIN cached_sync_state[Handler].synced_orders :
          LET entry == cached_sync_state[Handler].synced_orders[o]
          IN  /\ \A k \in DOMAIN entry : ~pages[entry[k]].archived
              /\ \E i \in DOMAIN pages :
                    /\ pages[i].order = o
                    /\ pages[i].archived
                    /\ i \notin Range(entry)
                    /\ i < entry[1]


\* C17: for an order with k > 1 line items create_notion_page creates 1 + k
\* pages, the parent first; the page of line item i carries the order's name
\* followed by i, the item's own listed and sold amounts (unit price times
\* quantity) and the id of the new parent, and the parent's listed and sold
\* amounts are the sums of its children's.  For an order with one line item
\* it creates one page, which has no parent.
C17_ParentAndChildren ==
    call.fn = "create_notion_page" =>
        LET k == Len(call.arg)
            r == call.ret
        IN  /\ k > 1 =>
                /\ Len(r) = 1 + k
                /\ r[1].order_id = <<1>>
                /\ r[1].parent_item = None
                /\ \A i \in 1..k :
                      /\ r[1 + i].order_id = <<1, i>>
                      /\ r[1 + i].listed_for = call.arg[i].original * call.arg[i].quantity
                      /\ r[1 + i].sold_for = call.arg[i].discounted * call.arg[i].quantity
                      /\ r[1 + i].parent_item = Len(pages) + 1
                /\ r[1].listed_for = Total(SubSeq(r, 2, 1 + k), "listed_for")
                /\ r[1].sold_for = Total(SubSeq(r, 2, 1 + k), "sold_for")
            /\ k = 1 =>
                /\ Len(r) = 1
                /\ r[1].order_id = <<1>>
                /\ r[1].parent_item = None
            /\ k >= 1 => Len(r) = PagesNeeded(k)

\* C17 witness: an order of three line items, one of them with quantity 2,
\* has produced four pages.
C17_Witness ==
    /\ call.fn = "create_notion_page"
    /\ Len(call.arg) = 3
    /\ \E i \in 1..3 : call.arg[i].quantity = 2
    /\ Len(call.ret) = 4

\* C19: get_synced_order_page_ids gives [x] for a stored string x, [x] for a
\* dict that has notion_page_id x and no notion_page_ids, the stored list for
\* a dict that has notion_page_ids, a stored list itself, and the empty list
\* for an order without entry.
C19_LegacyShapesNormalized ==
    call.fn = "get_synced_order_page_ids" =>
        LET e == call.arg
        IN  /\ e.shape = "str" => call.ret = <<e.value>>
            /\ (e.shape = "dict" /\ e.keys = {"notion_page_id"}) =>
                  call.ret = <<e.notion_page_id>>
            /\ (e.shape = "dict" /\ "notion_page_ids" \in e.keys) =>
                  call.ret = e.notion_page_ids
            /\ e.shape = "list" => call.ret = e.value
            /\ e.shape = "absent" => call.ret = <<>>

\* C19 witness: a stored string has been read as a list of one id.
C19_Witness ==
    /\ call.fn = "get_synced_order_page_ids"
    /\ call.arg.shape = "str"
    /\ Len(call.ret) = 1


\* C18 (as claimed): a run that returns the blocked result and a run that
\* ends through the except clause leave the persisted last_sync as it was
\* when the run began.
C18_LastSyncOnlyAtFinalize ==
    [][/\ (pc[Handler] = "idle" /\ pc'[Handler] = "respond") =>
              blob'.last_sync = blob.last_sync
       /\ (pc[Handler] = "except" /\ pc'[Handler] = "respond") =>
              blob'.last_sync = hist[Handler].last_sync_at_start]_vars

C21_ReleaseWrittenThrough ==
    [][(DbEndSyncLockCall(Handler) /\ batch_mode[Handler]) => LockFree(blob')]_vars

\* The same of a SyncBlobStorage, whose reads and writes may fail.
BlobReleaseWrittenThrough ==
    [][\A rok, wok \in BOOLEAN :
          (EndSyncLockCall(Handler, rok, wok) /\ batch_mode[Handler]) => LockFree(blob')]_vars

\* C22 (as claimed): when end_batch_mode returns, the persisted state is the
\* one the calls made since start_batch_mode would have left without batch
\* mode.
C22_BatchLeavesSameState ==
    [][(DbEndBatchModeCall(Handler) /\ batch_mode[Handler]) =>
          blob' = hist[Handler].unbatched]_vars

\* The same of a SyncBlobStorage on a blob store that answers every call.
BlobBatchLeavesSameState ==
    [][(EndBatchModeCall(Handler, TRUE) /\ batch_mode[Handler]) =>
          blob' = hist[Handler].unbatched]_vars

\* C23: when create_notion_page marks a record synced, the run's resume
\* checkpoint becomes that record's update time, and when the record fails
\* the checkpoint stays as it was; so when a run with at least one success
\* ends (through the normal exit or the except clause) its checkpoint is the
\* update time of the record it marked synced last, and that is the
\* checkpoint it persists when its closing write succeeds.
C23_CheckpointIsLastSuccess ==
    [][/\ \A failed \in SUBSET OldPages(Handler), c \in Counts(Handler) :
             CreateNotionPage(Handler, failed, c) =>
                 cached_sync_state'[Handler].last_processed_updated_at =
                     IF PageCreated(Head(orders[Handler]).items, c)
                     THEN Head(orders[Handler]).updatedAt
                     ELSE cached_sync_state[Handler].last_processed_updated_at
       /\ \A ok \in BOOLEAN :
             (/\ Finalize(Handler, ok) \/ Cleanup(Handler, ok)
              /\ LastSynced(hist[Handler].log) # None) =>
                 LET t == shop[LastSynced(hist[Handler].log)].updatedAt
                 IN  /\ cached_sync_state[Handler].last_processed_updated_at = t
                     /\ ok => blob'.last_processed_updated_at = t]_vars

\* C23 witness: a run has returned after it synced a record and then failed
\* on a record updated later; the persisted checkpoint is the update time of
\* the first.
C23_Witness ==
    /\ Returned(Handler, {"summary"})
    /\ hist[Handler].flushed
    /\ Len(hist[Handler].log) = 2
    /\ hist[Handler].log[1].ok
    /\ ~hist[Handler].log[2].ok
    /\ blob.last_processed_updated_at = shop[hist[Handler].log[1].name].updatedAt
    /\ blob.last_processed_updated_at < shop[hist[Handler].log[2].name].updatedAt

\* C24: when create_notion_page marks an order synced, the order is not in
\* the run's failed_orders afterwards, whatever they held before; and an
\* order that was in the persisted failed_orders when a run began, and whose
\* last attempt in the run succeeded, is not in the failed_orders the run
\* persists.
C24_SyncedOrderNotFailed ==
    [][/\ \A failed \in SUBSET OldPages(Handler), c \in Counts(Handler) :
             (/\ CreateNotionPage(Handler, failed, c)
              /\ PageCreated(Head(orders[Handler]).items, c)) =>
                 Head(orders[Handler]).name \notin
                     Range(cached_sync_state'[Handler].failed_orders)
       /\ \A o \in Range(hist[Handler].failed_at_start) :
             (/\ Finalize(Handler, TRUE) \/ Cleanup(Handler, TRUE)
              /\ o \in Successes(hist[Handler].log)
              /\ o \notin OpenFailures(hist[Handler].log)) =>
                 o \notin Range(blob'.failed_orders)]_vars

\* C24 witness: a run that found an order in failed_orders has synced it
\* and returned; the persisted failed_orders no longer hold it.
C24_Witness ==
    /\ Returned(Handler, {"summary"})
    /\ hist[Handler].flushed
    /\ \E o \in Range(hist[Handler].failed_at_start) :
          /\ o \in Successes(hist[Handler].log)
          /\ o \notin Range(blob.failed_orders)
          /\ o \in DOMAIN blob.synced_orders

\* The same of the stores called directly: after mark_order_synced(o, ...)
\* the failed orders the store reports do not hold o.
BlobSyncedOrderNotFailed ==
    [][\A o \in MarkedOrders, ids \in MarkedIdLists, t \in UpdateTimes :
          MarkOrderSyncedCall(Handler, o, ids, t, TRUE, TRUE) =>
              o \notin Range((IF batch_mode[Handler] THEN cached_sync_state'[Handler]
                              ELSE blob').failed_orders)]_vars

DbSyncedOrderNotFailed ==
    [][\A o \in MarkedOrders, ids \in MarkedIdLists, t \in UpdateTimes :
          DbMarkOrderSyncedCall(Handler, o, ids, t) =>
              o \notin Range((IF batch_mode[Handler] THEN cached_sync_state'[Handler]
                              ELSE blob').failed_orders)]_vars

\* C25: outside batch mode, is_sync_in_progress called right after
\* start_sync_lock returns True, and called right after end_sync_lock it
\* returns False; start_sync_lock on a free lock leaves the lock held since
\* the time of the call, and end_sync_lock leaves it free again.
C25_AcquireThenRelease ==
    [][/\ (/\ DbIsSyncInProgressCall(Handler)
           /\ ~batch_mode[Handler]
           /\ call.fn = "start_sync_lock") => call'.ret = TRUE
       /\ (/\ DbIsSyncInProgressCall(Handler)
           /\ ~batch_mode[Handler]
           /\ call.fn = "end_sync_lock") => call'.ret = FALSE
       /\ (DbStartSyncLockCall(Handler) /\ ~batch_mode[Handler] /\ LockFree(blob)) =>
              (blob'.sync_in_progress /\ blob'.sync_started_at = now)
       /\ (DbEndSyncLockCall(Handler) /\ ~batch_mode[Handler]) => LockFree(blob')]_vars

\* C25 witness: outside batch mode is_sync_in_progress has returned True,
\* the lock being held since the current minute.
C25_Witness ==
    /\ ~batch_mode[Handler]
    /\ call.fn = "is_sync_in_progress"
    /\ call.ret = TRUE
    /\ blob.sync_in_progress
    /\ blob.sync_started_at = now

\* The same of a SyncBlobStorage whose reads and writes succeed: what
\* is_sync_in_progress would return next is True after start_sync_lock and
\* False after end_sync_lock.
BlobAcquireThenRelease ==
    [][/\ (StartSyncLockCall(Handler, TRUE, TRUE) /\ ~batch_mode[Handler]) =>
              /\ IsSyncInProgress(LockStateRead(Handler, TRUE), now)'
              /\ LockFree(blob) => blob'.sync_started_at = LocalNow(now, tz)
       /\ (EndSyncLockCall(Handler, TRUE, TRUE) /\ ~batch_mode[Handler]) =>
              /\ ~IsSyncInProgress(LockStateRead(Handler, TRUE), now)'
              /\ LockFree(blob')]_vars

\* C26: get_synced_order_page_ids(o) called right after
\* mark_order_synced(o, ids, t) returns ids, in and out of batch mode,
\* whatever entry the order had before: the new list replaces it.
C26_MarkThenGetReturnsIds ==
    [][/\ \A o \in MarkedOrders :
             (/\ SyncedOrderPageIdsCall(Handler, o, TRUE)
              /\ call.fn = "mark_order_synced"
              /\ call.arg[1] = o) => call'.ret = call.arg[2]
       /\ \A o \in MarkedOrders, ids \in MarkedIdLists, t \in UpdateTimes :
             MarkOrderSyncedCall(Handler, o, ids, t, TRUE, TRUE) =>
                 GetSyncedOrderPageIds(GetSyncState(Handler, TRUE), o)' = ids]_vars

\* C26 witness: in batch mode, with the list <<1>> persisted for an order,
\* the order has been marked again and get_synced_order_page_ids has
\* returned the two ids of the second marking.
C26_Witness ==
    /\ batch_mode[Handler]
    /\ 1 \in DOMAIN blob.synced_orders
    /\ blob.synced_orders[1] = <<1>>
    /\ call.fn = "get_synced_order_page_ids"
    /\ call.arg = <<1>>
    /\ call.ret = <<2, MaxIds>>

\* The same of a SyncDatabaseStorage.
DbMarkThenGetReturnsIds ==
    [][\A o \in MarkedOrders :
          (/\ DbSyncedOrderPageIdsCall(Handler, o)
           /\ call.fn = "mark_order_synced"
           /\ call.arg[1] = o) => call'.ret = call.arg[2]]_vars

\* The orders a persisted state has neither an entry for nor in failed_orders.
Untracked(b) ==
    {o \in DOMAIN shop : o \notin DOMAIN b.synced_orders /\ o \notin Range(b.failed_orders)}

\* C27 (as claimed): whenever no run is active and the next smart run will
\* be incremental, every order without entry that is not in failed_orders was
\* updated at or after the lower bound that run's timestamp-bounded fetch
\* will use; and that fetch returns no order updated before the bound.
C27_NoOrderSkipped ==
    [][/\ (NoRunActive /\ blob.last_sync # None)' =>
              \A o \in Untracked(blob') :
                  shop[o].updatedAt >= DetermineSyncStrategy(blob').sync_from_timestamp
       /\ (FetchUpdated(Handler, TRUE) /\ mode[Handler] = "smart") =>
              \A i \in DOMAIN orders'[Handler] :
                  orders'[Handler][i].updatedAt >=
                      DetermineSyncStrategy(blob).sync_from_timestamp]_vars

\* C28 (as claimed): no step removes an order from the keys of the persisted
\* synced_orders, blob reads that fail included.
C28_SyncedOrdersNeverLost ==
    [][DOMAIN blob.synced_orders \subseteq DOMAIN blob'.synced_orders]_vars

\* The part of a persisted state that decides what the next smart run does:
\* whether a run has completed, the resume checkpoint, the orders to retry
\* and the orders that have an entry.
Progress(b) ==
    <<b.last_sync # None, b.last_processed_updated_at, b.failed_orders,
      DOMAIN b.synced_orders>>

\* C29 (as claimed, in the form a finite run refutes): a smart run that
\* completes with every Shopify, Notion and blob call answered, started while
\* some order had no entry and none was waiting for a retry, moves the
\* persisted state forward: it gives an entry to another order or moves the
\* checkpoint.  A run that leaves all of this as it found it can be followed
\* by the same run without end, and then the orders without entry never get
\* one, whatever the number of runs.
C29_EveryRunMovesForward ==
    [][(/\ Finalize(Handler, TRUE)
        /\ mode[Handler] = "smart"
        /\ ~hist[Handler].notion_fault
        /\ blob.failed_orders = <<>>
        /\ DOMAIN blob.synced_orders # DOMAIN shop)
           => Progress(blob') # Progress(blob)]_vars

\* C30: in every persisted state, every entry of synced_orders holds at least
\* one Notion page id, whatever calls fail and wherever the process dies.
C30_EntriesNonEmpty ==
    \A o \in DOMAIN blob.synced_orders : Len(blob.synced_orders[o]) >= 1

\* An order of several line items is persisted with its parent page and its
\* line item pages, after a run in which some Notion call raised.
C30_Witness ==
    /\ \E o \in DOMAIN blob.synced_orders : Len(blob.synced_orders[o]) > 1
    /\ blob.failed_orders # <<>>

\* C31: in every persisted state, sync_in_progress true comes with a
\* sync_started_at that is set, after any sequence of start_sync_lock,
\* end_sync_lock, start_batch_mode and end_batch_mode calls whose blob reads
\* and writes may fail.
C31_HeldLockHasStartTime ==
    blob.sync_in_progress => blob.sync_started_at # None

\* The lock is persisted as held by the put of end_batch_mode.
C31_Witness ==
    /\ blob.sync_in_progress
    /\ call.fn = "end_batch_mode"
    /\ call.ret = TRUE

\* C32: when some archive call for an old page of an order raises and the
\* creations that follow succeed, the new pages exist and are not archived,
\* the order's entry is exactly the new ids, the order is not in
\* failed_orders nor in the run's errors, and it counts as processed; the
\* pages whose archive call raised stay as they were.
C32_ArchiveFailureDoesNotFailOrder ==
    [][\A failed \in SUBSET OldPages(Handler), c \in Counts(Handler) :
          LET o == Head(orders[Handler]).name
              base == Len(pages)
              st == cached_sync_state'[Handler]
          IN  (/\ CreateNotionPage(Handler, failed, c)
               /\ failed # {}
               /\ c = FullCount(Handler)) =>
                 /\ Len(pages') = base + c
                 /\ \A k \in 1..c : /\ ~pages'[base + k].archived
                                     /\ pages'[base + k].order = o
                 /\ \A i \in failed : pages'[i] = pages[i]
                 /\ o \in DOMAIN st.synced_orders
                 /\ st.synced_orders[o] = NewPageIds(base, c)
                 /\ o \notin Range(st.failed_orders)
                 /\ errors'[Handler] = errors[Handler]
                 /\ processed_orders'[Handler] = processed_orders[Handler] + 1]_vars

\* The only order a run has processed so far was recorded as a success
\* although a Notion call raised: an archive call of its re-sync.
C32_Witness ==
    /\ Len(hist[Handler].log) = 1
    /\ hist[Handler].log[1].ok
    /\ hist[Handler].notion_fault

\* C33 (as claimed): for every order handed to create_notion_page while
\* Notion accepts every write, an order without line items included, exactly
\* one parent page is created (a page with no "Parent item").
C33_OneParentForEveryOrder ==
    call.fn = "create_notion_page" =>
        Cardinality({i \in DOMAIN call.ret : call.ret[i].parent_item = None}) = 1

\* C34: get_payment_status answers the mapped label whenever the order's
\* displayFinancialStatus is one of the eight mapped values, whatever its
\* transactions; otherwise a successful void gives Voided, else a successful
\* refund with a successful sale Partially Refunded, else a successful
\* refund Refunded, else a successful sale Paid, else Pending when there are
\* transactions and Unknown when there are none.
C34_PaymentStatusPrecedence ==
    call.fn = "get_payment_status" =>
        LET status == Lower(call.arg[1])
            txs == call.arg[2]
            void == HasSuccessful(txs, "void")
            refund == HasSuccessful(txs, "refund")
            sale == HasSuccessful(txs, "sale")
        IN  IF status \in MappedStatuses
            THEN call.ret = StatusMapping(status)
            ELSE /\ void => call.ret = "Voided"
                 /\ (~void /\ refund /\ sale) => call.ret = "Partially Refunded"
                 /\ (~void /\ refund /\ ~sale) => call.ret = "Refunded"
                 /\ (~void /\ ~refund /\ sale) => call.ret = "Paid"
                 /\ (~void /\ ~refund /\ ~sale /\ txs # <<>>) => call.ret = "Pending"
                 /\ txs = <<>> => call.ret = "Unknown"

\* An order without a mapped status, with a successful sale and a successful
\* refund among its transactions, was given Partially Refunded.
C34_Witness ==
    /\ call.fn = "get_payment_status"
    /\ Lower(call.arg[1]) \notin MappedStatuses
    /\ HasSuccessful(call.arg[2], "refund")
    /\ HasSuccessful(call.arg[2], "sale")
    /\ call.ret = "Partially Refunded"

\* C35 (as claimed): transform_order_data returns for every order in which
\* any of the optional structures is absent, null or empty, and every amount
\* whose structure is not there is zero.
C35_NeverRaisesOnMissingStructure ==
    call.fn = "transform_order_data" =>
        /\ ~call.ret.raised
        /\ call.arg.totalTaxSet # "present" => call.ret.total_tax = 0
        /\ (call.arg.transactions # "present" \/ call.arg.fees # "present") =>
               call.ret.total_fees = 0
        /\ call.arg.priceSets # "present" =>
               call.ret.total_listed = 0 /\ call.ret.total_sold = 0

\* The same, for the orders whose displayFinancialStatus is not null.
TransformReturnsUnlessStatusNull ==
    (call.fn = "transform_order_data" /\ call.arg.displayFinancialStatus # "null") =>
        /\ ~call.ret.raised
        /\ call.arg.totalTaxSet # "present" => call.ret.total_tax = 0
        /\ (call.arg.transactions # "present" \/ call.arg.fees # "present") =>
               call.ret.total_fees = 0
        /\ call.arg.priceSets # "present" =>
               call.ret.total_listed = 0 /\ call.ret.total_sold = 0

\* The names of the records of a run's log that failed, in processing order,
\* and the number of pages a full creation makes for those that succeeded.
RECURSIVE FailedNames(_)
FailedNames(log) ==
    IF log = <<>> THEN <<>>
    ELSE (IF log[1].ok THEN <<>> ELSE <<log[1].name>>) \o FailedNames(Tail(log))

RECURSIVE PagesOfSuccesses(_)
PagesOfSuccesses(log) ==
    IF log = <<>> THEN 0
    ELSE (IF log[1].ok THEN PagesNeeded(shop[log[1].name].items) ELSE 0)
         + PagesOfSuccesses(Tail(log))

\* C36: the summary of a completed run reports as processed_orders the
\* number of fetched records that were marked synced, as errors the names of
\* the records that failed, in processing order, and as created_pages the
\* number of pages created for the records that succeeded; the two together
\* account for every record the run fetched.
C36_SummaryAccountsForEveryRecord ==
    (pc[Handler] = "respond" /\ result[Handler].kind = "summary") =>
        LET log == hist[Handler].log
            summary == result[Handler]
        IN  /\ summary.processed_orders = Cardinality({i \in DOMAIN log : log[i].ok})
            /\ summary.errors = FailedNames(log)
            /\ summary.created_pages = PagesOfSuccesses(log)
            /\ summary.processed_orders + Len(summary.errors) = Len(hist[Handler].fetched)

\* A run completes with one record synced (an order of several line items)
\* and one failed.
C36_Witness ==
    /\ pc[Handler] = "respond"
    /\ result[Handler].kind = "summary"
    /\ result[Handler].processed_orders = 1
    /\ result[Handler].created_pages > 1
    /\ Len(result[Handler].errors) = 1

\* C37: every invocation of sync_orders_to_notion that got past the lock
\* check returns (a summary or an error summary) when each of its calls
\* returns or raises; on the way it makes at most two Shopify fetches and
\* processes each fetched record once per fetch, in fetch order.  (A blocked
\* invocation returns in the step of its only lock check.)
C37_RunTerminates ==
    /\ [](Len(hist[Handler].fetches) <= 2)
    /\ [](\E n \in 0..Len(hist[Handler].fetched) :
             Names(hist[Handler].log) = SubSeq(hist[Handler].fetched, 1, n))
    /\ []((pc[Handler] = "respond" /\ result[Handler].kind = "summary") =>
             Names(hist[Handler].log) = hist[Handler].fetched)
    /\ (pc[Handler] \notin {"idle", "respond"}) ~>
           (pc[Handler] = "respond" /\ result[Handler].kind \in {"summary", "fatal"})

\* A run returns its summary after two fetches, having processed two records.
C37_Witness ==
    /\ pc[Handler] = "respond"
    /\ result[Handler].kind = "summary"
    /\ Len(hist[Handler].fetches) = 2
    /\ Len(hist[Handler].log) = 2

\* C38 (as claimed): a run goes on from start_sync_lock to batch mode,
\* fetching and processing only when the state with its lock is the
\* persisted one: it does not go on after a put that failed.
C38_RunsOnlyWithPersistedLock ==
    [][(pc[Handler] = "save_sync_lock" /\ pc'[Handler] = "start_batch_mode") =>
          (/\ blob' = sync_state[Handler]
           /\ blob'.sync_in_progress)]_vars

\* C39 (as claimed): whenever a run has returned status success, the
\* closing write succeeded and the persisted state holds an entry for every
\* record the run marked synced, the checkpoint of the last of them and a
\* last_sync.
C39_SuccessIsPersisted ==
    (Returned(Handler, {"summary"}) /\ result[Handler].status = "success") =>
        /\ hist[Handler].flushed
        /\ Successes(hist[Handler].log) \subseteq DOMAIN blob.synced_orders
        /\ blob.last_sync # None
        /\ LastSynced(hist[Handler].log) # None =>
               blob.last_processed_updated_at = shop[LastSynced(hist[Handler].log)].updatedAt

\* The same, of the runs whose closing write succeeded.
FlushedSuccessIsPersisted ==
    (/\ Returned(Handler, {"summary"})
     /\ result[Handler].status = "success"
     /\ hist[Handler].flushed) =>
        /\ Successes(hist[Handler].log) \subseteq DOMAIN blob.synced_orders
        /\ blob.last_sync # None
        /\ LastSynced(hist[Handler].log) # None =>
               blob.last_processed_updated_at = shop[LastSynced(hist[Handler].log)].updatedAt

\* C40 (as claimed): with two handlers, the closing write of a run removes
\* nothing another run persisted after it entered batch mode: every order
\* that has an entry keeps one, every order in failed_orders stays there
\* unless the run itself synced it, and a lock that is not the one the run
\* holds in its cache stays as it is.
C40_FlushKeepsOtherRunsWrites ==
    [][\A p \in Procs :
          (Finalize(p, TRUE) \/ Cleanup(p, TRUE)) =>
              /\ DOMAIN blob.synced_orders \subseteq DOMAIN blob'.synced_orders
              /\ \A o \in Range(blob.failed_orders) :
                     o \in Range(blob'.failed_orders) \/ o \in Successes(hist[p].log)
              /\ (/\ blob.sync_in_progress
                  /\ blob.sync_started_at # cached_sync_state[p].sync_started_at) =>
                     /\ blob'.sync_in_progress
                     /\ blob'.sync_started_at = blob.sync_started_at]_vars

====
